---- MODULE Spec2Model ----
(***************************************************************************)
(* Model of benchmarks/gguf/gguf_compare.py: the cross-framework GGUF      *)
(* benchmark harness.  main() resolves the backend commands, then runs,    *)
(* backend after backend, the warmup and the measured executions, and      *)
(* finally ranks the backends and writes the three reports.                *)
(*                                                                         *)
(* Strings that the code inspects (names, templates, filters) are          *)
(* sequences of one-character strings.  An optional value (Python None or  *)
(* a value) is the empty sequence or a one-element sequence.               *)
(***************************************************************************)
EXTENDS Integers, Sequences, FiniteSets, TLC

(***************************************************************************)
(* Bounds of the explored inputs.                                          *)
(***************************************************************************)
\* longest "backends" list of a configuration
MaxBackends == 3
\* largest measured run count
MaxRuns == 2
\* largest warmup run count
MaxWarmup == 1
\* largest schedule under strict mode: Len(backends) * (runs + 1)
MaxWork == 6
\* largest schedule under lenient mode, where no failure ends it
MaxLenientWork == 4
\* most backends of one configuration that differ from the two plain ones
MaxOdd == 1
\* longest --backend string the filter functions are checked on
MaxFilterLen == 3
\* longest series the statistics functions are checked on
MaxSeries == 3
\* bits of precision of the floats of percentile_float
MantissaBits == 5
\* longest template format_command is checked on
MaxTemplateLen == 4

(***************************************************************************)
(* Optional values.                                                        *)
(***************************************************************************)
None == <<>>
Some(v) == <<v>>

(***************************************************************************)
(* str.strip, str.lower, the "in" of two strings, str.split(",").          *)
(***************************************************************************)
RECURSIVE lstrip(_)
lstrip(s) ==
    IF s # <<>> /\ Head(s) = " " THEN lstrip(Tail(s)) ELSE s

RECURSIVE rstrip(_)
rstrip(s) ==
    IF s # <<>> /\ s[Len(s)] = " " THEN rstrip(SubSeq(s, 1, Len(s) - 1)) ELSE s

strip(s) == rstrip(lstrip(s))

lower_char(c) ==
    IF c = "A" THEN "a" ELSE IF c = "B" THEN "b" ELSE c

lower(s) == [k \in 1..Len(s) |-> lower_char(s[k])]

str_in(token, s) ==
    \E k \in 0..(Len(s) - Len(token)) : SubSeq(s, k + 1, k + Len(token)) = token

RECURSIVE split_comma(_, _)
\* raw.split(","): cur is the item being read
split_comma(raw, cur) ==
    IF raw = <<>> THEN <<cur>>
    ELSE IF Head(raw) = "," THEN <<cur>> \o split_comma(Tail(raw), <<>>)
    ELSE split_comma(Tail(raw), Append(cur, Head(raw)))

RECURSIVE keep_filters(_)
keep_filters(items) ==
    IF items = <<>> THEN <<>>
    ELSE IF strip(Head(items)) # <<>>
         THEN <<lower(strip(Head(items)))>> \o keep_filters(Tail(items))
         ELSE keep_filters(Tail(items))

parse_backend_filters(raw) == keep_filters(split_comma(raw, <<>>))

\* a token selects only the backend of exactly its name
backend_is_selected_exact(name, filters) ==
    IF filters = <<>> THEN TRUE
    ELSE \E k \in 1..Len(filters) : filters[k] = lower(name)

backend_is_selected(name, filters) ==
    IF filters = <<>> THEN TRUE
    ELSE \E k \in 1..Len(filters) :
            filters[k] = lower(name) \/ str_in(filters[k], lower(name))

(***************************************************************************)
(* str.format with the variables as keywords, on the characters of a       *)
(* template.  "{{" and "}}" are the escaped braces; "{name}" is replaced   *)
(* by variables[name].  The result is [ok |-> TRUE, val |-> text] or       *)
(* [ok |-> FALSE, exc, key].  Field names here hold no digit, ".", "[",    *)
(* "!" or ":".                                                             *)
(***************************************************************************)
FmtOk(text) == [ok |-> TRUE, val |-> text, exc |-> "", key |-> <<>>]
FmtErr(e, k) == [ok |-> FALSE, val |-> <<>>, exc |-> e, key |-> k]

\* index of the first "}" at or after p, 0 when there is none
RECURSIVE close_brace(_, _)
close_brace(t, p) ==
    IF p > Len(t) THEN 0
    ELSE IF t[p] = "}" THEN p
    ELSE close_brace(t, p + 1)

RECURSIVE str_format(_, _, _, _)
str_format(t, variables, p, acc) ==
    IF p > Len(t) THEN FmtOk(acc)
    ELSE IF t[p] = "{" THEN
        IF p < Len(t) /\ t[p + 1] = "{"
        THEN str_format(t, variables, p + 2, Append(acc, "{"))
        ELSE LET q == close_brace(t, p + 1)
                 field == SubSeq(t, p + 1, q - 1)
             IN  IF q = 0 THEN FmtErr("ValueError", <<>>)
                 ELSE IF \E k \in 1..Len(field) : field[k] = "{"
                      THEN FmtErr("ValueError", <<>>)
                 ELSE IF field = <<>> THEN FmtErr("IndexError", <<>>)
                 ELSE IF field \notin DOMAIN variables THEN FmtErr("KeyError", field)
                 ELSE str_format(t, variables, q + 1, acc \o variables[field])
    ELSE IF t[p] = "}" THEN
        IF p < Len(t) /\ t[p + 1] = "}"
        THEN str_format(t, variables, p + 2, Append(acc, "}"))
        ELSE FmtErr("ValueError", <<>>)
    ELSE str_format(t, variables, p + 1, Append(acc, t[p]))

\* format_command: a KeyError becomes a ValueError naming the variable
format_command(template, variables) ==
    LET r == str_format(template, variables, 1, <<>>)
    IN  IF ~r.ok /\ r.exc = "KeyError" THEN FmtErr("ValueError", r.key) ELSE r

(***************************************************************************)
(* Paths: REPO_ROOT, Path.is_absolute, REPO_ROOT / p, Path.name, int->str. *)
(* to_posix resolves a path; the paths here hold no ".", ".." or link, so  *)
(* resolving leaves them as they are.                                      *)
(***************************************************************************)
REPO_ROOT == <<"/", "r">>

is_absolute(p) == p # <<>> /\ Head(p) = "/"

under_repo_root(p) ==
    IF is_absolute(p) THEN p ELSE REPO_ROOT \o <<"/">> \o p

RECURSIVE path_name(_)
path_name(p) ==
    IF \E k \in 1..Len(p) : p[k] = "/"
    THEN path_name(Tail(p))
    ELSE p

Digit(d) == <<"0", "1", "2", "3", "4", "5", "6", "7", "8", "9">>[d + 1]

RECURSIVE str_int(_)
str_int(n) ==
    IF n < 10 THEN <<Digit(n)>> ELSE Append(str_int(n \div 10), Digit(n % 10))

(***************************************************************************)
(* build_template_variables: the user's variables, then the computed keys, *)
(* which overwrite same-named user entries.                                *)
(***************************************************************************)
K_repo_root == <<"r", "e", "p", "o", "_", "r", "o", "o", "t">>
K_model_path == <<"m", "o", "d", "e", "l", "_", "p", "a", "t", "h">>
K_model_name == <<"m", "o", "d", "e", "l", "_", "n", "a", "m", "e">>
K_prompt == <<"p", "r", "o", "m", "p", "t">>
K_max_tokens == <<"m", "a", "x", "_", "t", "o", "k", "e", "n", "s">>

ComputedKeys == {K_repo_root, K_model_path, K_model_name, K_prompt, K_max_tokens}

\* a value of the "variables" object of the configuration: a JSON string or
\* a JSON whole number; str(v) of it
JsonStr(text) == [kind |-> "str", text |-> text, number |-> 0]
JsonInt(n) == [kind |-> "int", text |-> <<>>, number |-> n]
py_str(v) == IF v.kind = "int" THEN str_int(v.number) ELSE v.text

\* the user's entries are put in after the computed ones, and win
build_template_variables_user_wins(config) ==
    LET model_path == IF config.model_path # <<>>
                      THEN under_repo_root(config.model_path)
                      ELSE <<>>
        model_name == IF config.model_name # None
                      THEN config.model_name[1]
                      ELSE IF model_path # <<>> THEN path_name(model_path) ELSE <<>>
        computed(k) == IF k = K_repo_root THEN REPO_ROOT
                       ELSE IF k = K_model_path THEN model_path
                       ELSE IF k = K_model_name THEN model_name
                       ELSE IF k = K_prompt THEN config.prompt
                       ELSE str_int(config.max_tokens)
    IN  [k \in (DOMAIN config.variables) \cup ComputedKeys |->
            IF k \in DOMAIN config.variables THEN py_str(config.variables[k])
            ELSE computed(k)]

build_template_variables(config) ==
    LET model_path == IF config.model_path # <<>>
                      THEN under_repo_root(config.model_path)
                      ELSE <<>>
        model_name == IF config.model_name # None
                      THEN config.model_name[1]
                      ELSE IF model_path # <<>> THEN path_name(model_path) ELSE <<>>
        computed(k) == IF k = K_repo_root THEN REPO_ROOT
                       ELSE IF k = K_model_path THEN model_path
                       ELSE IF k = K_model_name THEN model_name
                       ELSE IF k = K_prompt THEN config.prompt
                       ELSE str_int(config.max_tokens)
    IN  [k \in (DOMAIN config.variables) \cup ComputedKeys |->
            IF k \in ComputedKeys THEN computed(k) ELSE py_str(config.variables[k])]

(***************************************************************************)
(* Regular expressions are opaque pattern names.  The text a backend       *)
(* process wrote is the function that gives, for each pattern, what        *)
(* re.search finds in it: no match, or the first capture group as a number *)
(* (num = Some(n)) or as text that float() rejects (num = None).  Every    *)
(* pattern has a capture group 1 that takes part in its match.             *)
(***************************************************************************)
NoMatch == [matched |-> FALSE, num |-> None]
Numeric(n) == [matched |-> TRUE, num |-> Some(n)]
NonNumeric == [matched |-> TRUE, num |-> None]

\* a capture that is no number ends the search
RECURSIVE parse_numeric_metric_first_match(_, _)
parse_numeric_metric_first_match(text, regexes) ==
    IF regexes = <<>> THEN None
    ELSE LET m == text[Head(regexes)]
         IN  IF m.matched THEN m.num
             ELSE parse_numeric_metric_first_match(text, Tail(regexes))

RECURSIVE parse_numeric_metric(_, _)
parse_numeric_metric(text, regexes) ==
    IF regexes = <<>> THEN None
    ELSE LET m == text[Head(regexes)]
         IN  IF m.matched /\ m.num # None THEN m.num
             ELSE parse_numeric_metric(text, Tail(regexes))

\* normalize_regexes: raw is absent, one pattern, or a list of patterns
normalize_regexes(raw) ==
    IF raw.kind = "none" THEN <<>>
    ELSE IF raw.kind = "str" THEN <<raw.val>>
    ELSE raw.val

NoRegexes == [kind |-> "none", val |-> <<>>]
OneRegex(p) == [kind |-> "str", val |-> p]
RegexList(ps) == [kind |-> "list", val |-> ps]

(***************************************************************************)
(* Exact arithmetic for the statistics: a number is a pair <<n, d>> with   *)
(* d > 0 standing for n / d (floating-point rounding is left out).         *)
(***************************************************************************)
Rat(n, d) == <<n, d>>
RatLess(a, b) == a[1] * b[2] < b[1] * a[2]
RatEq(a, b) == a[1] * b[2] = b[1] * a[2]
RatLeq(a, b) == a[1] * b[2] <= b[1] * a[2]
\* a / b for b > 0
RatDiv(a, b) == <<a[1] * b[2], a[2] * b[1]>>

RECURSIVE insert_sorted(_, _)
insert_sorted(x, s) ==
    IF s = <<>> THEN <<x>>
    ELSE IF x < Head(s) THEN <<x>> \o s
    ELSE <<Head(s)>> \o insert_sorted(x, Tail(s))

RECURSIVE sorted(_)
sorted(values) ==
    IF values = <<>> THEN <<>> ELSE insert_sorted(Head(values), sorted(Tail(values)))

RECURSIVE seq_sum(_)
seq_sum(values) ==
    IF values = <<>> THEN 0 ELSE Head(values) + seq_sum(Tail(values))

seq_squares(values) == [k \in 1..Len(values) |-> values[k] * values[k]]

\* percentile(values, p) for a whole-number p and a non-empty series, in
\* exact arithmetic
percentile(values, p) ==
    LET s == sorted(values)
        n == Len(s)
        k100 == (n - 1) * p
        lo == k100 \div 100
        up == IF lo + 1 < n - 1 THEN lo + 1 ELSE n - 1
        r == k100 % 100
    IN  IF p <= 0 THEN Rat(s[1], 1)
        ELSE IF p >= 100 THEN Rat(s[n], 1)
        ELSE IF lo = up THEN Rat(s[lo + 1], 1)
        ELSE Rat(s[lo + 1] * (100 - r) + s[up + 1] * r, 100)

(***************************************************************************)
(* The float arithmetic of percentile's interpolation (lines 114-121),     *)
(* step by step: binary floating point rounded to the nearest value, ties  *)
(* to the even one, with MantissaBits bits of precision (a Python float    *)
(* has 53) and no bound on the exponent.  fl(x) is the float nearest to    *)
(* the number x.                                                           *)
(***************************************************************************)
RatAdd(a, b) == <<a[1] * b[2] + b[1] * a[2], a[2] * b[2]>>
RatSub(a, b) == <<a[1] * b[2] - b[1] * a[2], a[2] * b[2]>>
RatMul(a, b) == <<a[1] * b[1], a[2] * b[2]>>

RECURSIVE Pow2(_)
Pow2(n) == IF n = 0 THEN 1 ELSE 2 * Pow2(n - 1)

\* a / d > 0 times up / down is the number rounded: a / d is brought into
\* [2^(MantissaBits-1), 2^MantissaBits) and rounded to a whole number
RECURSIVE round_scaled(_, _, _, _)
round_scaled(a, d, up, down) ==
    IF a >= Pow2(MantissaBits) * d THEN round_scaled(a, 2 * d, 2 * up, down)
    ELSE IF a < Pow2(MantissaBits - 1) * d THEN round_scaled(2 * a, d, up, 2 * down)
    ELSE LET q == a \div d
             r == a % d
             m == IF 2 * r > d \/ (2 * r = d /\ q % 2 = 1) THEN q + 1 ELSE q
         IN  <<m * up, down>>

fl(x) ==
    IF x[1] = 0 THEN Rat(0, 1)
    ELSE IF x[1] > 0 THEN round_scaled(x[1], x[2], 1, 1)
    ELSE LET r == round_scaled(0 - x[1], x[2], 1, 1) IN <<0 - r[1], r[2]>>

\* percentile(values, p), lines 107-121, in float arithmetic, for a
\* non-empty series of floats and a float p
percentile_float(values, p) ==
    LET sorted_values == sorted(values)
        n == Len(sorted_values)
        k == fl(RatMul(Rat(n - 1, 1), fl(Rat(p, 100))))
        lower_k == k[1] \div k[2]
        upper_k == IF lower_k + 1 < n - 1 THEN lower_k + 1 ELSE n - 1
        fraction == fl(RatSub(k, Rat(lower_k, 1)))
    IN  IF p <= 0 THEN Rat(sorted_values[1], 1)
        ELSE IF p >= 100 THEN Rat(sorted_values[n], 1)
        ELSE IF lower_k = upper_k THEN Rat(sorted_values[lower_k + 1], 1)
        ELSE fl(RatAdd(fl(RatMul(Rat(sorted_values[lower_k + 1], 1),
                                 fl(RatSub(Rat(1, 1), fraction)))),
                       fl(RatMul(Rat(sorted_values[upper_k + 1], 1), fraction))))

\* statistics.median
median(values) ==
    LET s == sorted(values)
        n == Len(s)
    IN  IF n % 2 = 1 THEN Rat(s[(n + 1) \div 2], 1)
        ELSE Rat(s[n \div 2] + s[n \div 2 + 1], 2)

\* the standard deviation is the one of a sample (divisor n - 1)
summarize_sample_stdev(values) ==
    IF values = <<>> THEN <<>>
    ELSE LET s == sorted(values)
             n == Len(s)
         IN  [mean |-> Rat(seq_sum(s), n),
              median |-> median(values),
              min |-> Rat(s[1], 1),
              max |-> Rat(s[n], 1),
              p95 |-> percentile(values, 95),
              stdev_sq |-> IF n > 1
                           THEN Rat(n * seq_sum(seq_squares(s)) - seq_sum(s) * seq_sum(s),
                                    n * (n - 1))
                           ELSE Rat(0, 1)]

\* summarize: the empty dict for an empty series; "stdev_sq" is the square
\* of the population standard deviation
summarize(values) ==
    IF values = <<>> THEN <<>>
    ELSE LET s == sorted(values)
             n == Len(s)
         IN  [mean |-> Rat(seq_sum(s), n),
              median |-> median(values),
              min |-> Rat(s[1], 1),
              max |-> Rat(s[n], 1),
              p95 |-> percentile(values, 95),
              stdev_sq |-> IF n > 1
                           THEN Rat(n * seq_sum(seq_squares(s)) - seq_sum(s) * seq_sum(s), n * n)
                           ELSE Rat(0, 1)]

(***************************************************************************)
(* Dict[str, str] with its insertion order: a sequence of <<key, value>>.  *)
(***************************************************************************)
dict_has(d, k) == \E j \in 1..Len(d) : d[j][1] = k
dict_get(d, k) == d[CHOOSE j \in 1..Len(d) : d[j][1] = k][2]
dict_set(d, k, v) ==
    IF dict_has(d, k)
    THEN [j \in 1..Len(d) |-> IF d[j][1] = k THEN <<k, v>> ELSE d[j]]
    ELSE Append(d, <<k, v>>)

(***************************************************************************)
(* The configurations explored.  Two plain backends, and backends that     *)
(* each differ from them in one respect.                                   *)
(***************************************************************************)
MetricKey == "tps"

NoDict == <<>>

Backend(name, enabled, command, env, metric_regexes, parse, aux_metrics) ==
    [name |-> name, enabled |-> enabled, command |-> command, env |-> env,
     metric_regexes |-> metric_regexes, parse |-> parse, aux_metrics |-> aux_metrics]

\* name "a", command "r {x}", two explicit metric_regexes, one auxiliary metric
PlainA ==
    Backend(<<"a">>, TRUE, <<"r", " ", "{", "x", "}">>, NoDict,
            RegexList(<<"tps", "ttft">>), [k \in {"ttft"} |-> OneRegex("ttft")], NoDict)
\* name "b", command "s", env {K: "{x}"}, the primary patterns under parse
PlainB ==
    Backend(<<"b">>, TRUE, <<"s">>, [k \in {"K"} |-> <<"{", "x", "}">>],
            NoRegexes, [k \in {MetricKey} |-> OneRegex("tps")], NoDict)
\* enabled: false
Disabled ==
    Backend(<<"c">>, FALSE, <<"s">>, NoDict, OneRegex("tps"), NoDict, NoDict)
\* a name with a leading blank
Padded ==
    Backend(<<" ", "c">>, TRUE, <<"u">>, NoDict, OneRegex("tps"), NoDict, NoDict)
\* a second backend named "a", with another command
SameName ==
    Backend(<<"a">>, TRUE, <<"t">>, NoDict, OneRegex("tps"), NoDict, NoDict)
\* env value "{y}", y undefined
BadEnv ==
    Backend(<<"d">>, TRUE, <<"s">>, [k \in {"K"} |-> <<"{", "y", "}">>],
            OneRegex("tps"), NoDict, NoDict)
\* command "r {y}", y undefined
BadCommand ==
    Backend(<<"e">>, TRUE, <<"r", " ", "{", "y", "}">>, NoDict,
            OneRegex("tps"), NoDict, NoDict)
\* no primary pattern at all
NoPattern ==
    Backend(<<"f">>, TRUE, <<"s">>, NoDict, NoRegexes, NoDict,
            [k \in {"ttft"} |-> OneRegex("ttft")])
\* a blank name
NoName ==
    Backend(<<" ">>, TRUE, <<"s">>, NoDict, OneRegex("tps"), NoDict, NoDict)
\* a blank command
NoCommand ==
    Backend(<<"g">>, TRUE, <<" ">>, NoDict, OneRegex("tps"), NoDict, NoDict)

\* command "{z}", z defined as the empty string
EmptyExpansion ==
    Backend(<<"h">>, TRUE, <<"{", "z", "}">>, NoDict, RegexList(<<"tps", "ttft">>),
            NoDict, NoDict)

PlainBackends == {PlainA, PlainB}
OddBackends ==
    {Disabled, Padded, SameName, BadEnv, BadCommand, NoPattern, NoName, NoCommand,
     EmptyExpansion}

IsPlain(backend) == backend \in PlainBackends

\* of the plain backends of a list, neighbours differ (two backends of one
\* name are explored with SameName)
BackendLists ==
    {bs \in UNION {[1..n -> PlainBackends \cup OddBackends] : n \in 0..MaxBackends} :
        /\ Cardinality({k \in DOMAIN bs : bs[k] \in OddBackends}) <= MaxOdd
        /\ LET plain == SelectSeq(bs, IsPlain)
           IN  \A k \in 1..(Len(plain) - 1) : plain[k] # plain[k + 1]}

\* --backend: absent, "A, ", or ", "
BlankFilter == <<",", " ">>
BackendArgs == {<<>>, <<"A", ",", " ">>, BlankFilter}

\* (--runs, --warmup-runs, config runs, config warmup_runs): the command line
\* gives no count (-1), or gives both and the configuration's are unused
RunCounts ==
    {<<0 - 1, 0 - 1, n, w>> : n \in 0..MaxRuns, w \in 0..MaxWarmup}
        \cup {<<1, 0, 0, MaxWarmup>>}

Config(e, f, d, st, fb, c, bs) ==
    [exists |-> e, backend_arg |-> f, dry_run |-> d, strict |-> st,
      metric_fallback_to_wall_time |-> fb,
      args_runs |-> c[1], args_warmup_runs |-> c[2],
      runs |-> c[3], warmup_runs |-> c[4],
      variables |-> [k \in {<<"x">>, <<"z">>, K_prompt} |->
                        IF k = <<"x">> THEN JsonStr(<<"1">>)
                        ELSE IF k = <<"z">> THEN JsonStr(<<>>)
                        ELSE JsonInt(7)],
      model_path |-> <<"m">>, model_name |-> None,
      prompt |-> <<"p">>, max_tokens |-> 16,
      backends |-> bs]

\* the counts main() uses (lines 473-474)
effective_runs(config) ==
    IF config.args_runs < 0 THEN config.runs ELSE config.args_runs
effective_warmup_runs(config) ==
    IF config.args_warmup_runs < 0 THEN config.warmup_runs ELSE config.args_warmup_runs

(***************************************************************************)
(* Lines 491-503: the selection pass over the backends.                    *)
(***************************************************************************)
Resolved(cmds) == [ok |-> TRUE, cmds |-> cmds, exc |-> ""]
ResolveError(e) == [ok |-> FALSE, cmds |-> <<>>, exc |-> e]

RECURSIVE resolve_commands(_, _, _, _)
resolve_commands(bs, filters, tvars, cmds) ==
    IF bs = <<>> THEN Resolved(cmds)
    ELSE LET backend == Head(bs)
             name == strip(backend.name)
             command_tmpl == strip(backend.command)
             r == format_command(command_tmpl, tvars)
         IN  IF ~backend.enabled THEN resolve_commands(Tail(bs), filters, tvars, cmds)
             ELSE IF name = <<>> THEN ResolveError("ValueError")
             ELSE IF ~backend_is_selected(name, filters)
                  THEN resolve_commands(Tail(bs), filters, tvars, cmds)
             ELSE IF command_tmpl = <<>> THEN ResolveError("ValueError")
             ELSE IF ~r.ok THEN ResolveError(r.exc)
             ELSE resolve_commands(Tail(bs), filters, tvars, dict_set(cmds, name, r.val))

\* lines 535-538
primary_regexes(backend) ==
    LET explicit == normalize_regexes(backend.metric_regexes)
    IN  IF explicit # <<>> THEN explicit
        ELSE IF MetricKey \in DOMAIN backend.parse
             THEN normalize_regexes(backend.parse[MetricKey])
             ELSE <<>>

\* does main() enter the run loop (lines 466-517)
enters_run_loop(config) ==
    LET r == resolve_commands(config.backends, parse_backend_filters(config.backend_arg),
                              build_template_variables(config), <<>>)
    IN  config.exists /\ ~config.dry_run /\ r.ok /\ r.cmds # <<>>

\* one canonical configuration stands for each class whose other fields
\* are never read or make no difference: a missing file, an empty list, a
\* dry run, a selection pass that raises or selects nothing; strict when
\* no process is started; the fallback flag when no run is measured and
\* every backend has a primary pattern.  A filter is explored under strict
\* mode with the fallback and the configuration's counts (the selection
\* pass reads none of them), one of only commas and blanks with up to two
\* backends.  Without a measured run, at most one warmup run is explored.
Explored(config) ==
    /\ Len(config.backends) * (effective_runs(config) + 1)
          <= (IF config.strict THEN MaxWork ELSE MaxLenientWork)
    /\ ~config.exists => config.backends = <<>>
    /\ (~config.exists \/ config.backends = <<>>) =>
          /\ config.backend_arg = <<>> /\ ~config.dry_run
    /\ (effective_runs(config) = 0 /\ effective_warmup_runs(config) = 0) => config.strict
    /\ effective_runs(config) = 0 => effective_warmup_runs(config) <= 1
    /\ config.backend_arg = BlankFilter => Len(config.backends) <= 2
    /\ config.backend_arg # <<>> =>
          /\ config.strict /\ config.metric_fallback_to_wall_time
          /\ config.args_runs < 0
    /\ (/\ effective_runs(config) = 0
        /\ \A k \in 1..Len(config.backends) : primary_regexes(config.backends[k]) # <<>>)
          => config.metric_fallback_to_wall_time
    /\ ~enters_run_loop(config) =>
          /\ config.strict /\ config.metric_fallback_to_wall_time
          /\ config.args_runs < 0 /\ config.runs = 0 /\ config.warmup_runs = 0

(***************************************************************************)
(* What a backend process can do: exit with a code after some wall time,   *)
(* having written a text; or run past the timeout (a separate action).     *)
(***************************************************************************)
Patterns == {"tps", "ttft"}

Text(tps, ttft) == [k \in Patterns |-> IF k = "tps" THEN tps ELSE ttft]

Outcomes ==
    {[exit_code |-> 1, wall_seconds |-> 2, text |-> Text(NonNumeric, Numeric(7))],
     [exit_code |-> 1, wall_seconds |-> 2, text |-> Text(Numeric(4), Numeric(7))],
     [exit_code |-> 0, wall_seconds |-> 2, text |-> Text(NoMatch, Numeric(0 - 4))],
     [exit_code |-> 0, wall_seconds |-> 2, text |-> Text(Numeric(4), NoMatch)]}

(***************************************************************************)
(* The state of one invocation of main().                                  *)
(***************************************************************************)
VARIABLES
    cfg,               \* the command line and the loaded configuration
    pc,                \* where main() is
    rc,                \* the value main() returned (NoReturn before)
    exc,               \* the exception that left main(), "" when none
    backend_commands,  \* line 491: name -> resolved command
    listing,           \* what the dry run printed
    bi,                \* index of the backend of the run loop (line 521)
    i,                 \* iteration of the warmup or measured loop
    command,           \* lines 528-553, the backend being run
    env,
    metric_regexes,
    aux_regexes,
    children,          \* the backend processes now running
    spawned,           \* every process started so far, in order
    measured_runs,     \* lines 577-581
    success_metrics,
    success_wall,
    aux_values,
    failed_runs,
    result_rows,       \* line 519
    reports,           \* the files written (None before)
    stdout,            \* the warmup-timeout notices printed (line 575)
    stderr,            \* messages on the error stream
    os_environ         \* os.environ, the environment of the interpreter

vars == <<cfg, os_environ, pc, rc, exc, backend_commands, listing, bi, i, command, env,
          metric_regexes, aux_regexes, children, spawned, measured_runs,
          success_metrics, success_wall, aux_values, failed_runs, result_rows,
          reports, stdout, stderr>>

run_state == <<command, env, metric_regexes, aux_regexes, measured_runs,
               success_metrics, success_wall, aux_values, failed_runs>>

NoReturn == 0 - 1

OS_ENVIRON == [k \in {"PATH"} |-> <<"/", "b">>]

variables == build_template_variables(cfg)
runs == effective_runs(cfg)
warmup_runs == effective_warmup_runs(cfg)
strict == cfg.strict
backends == cfg.backends
backend_filters == parse_backend_filters(cfg.backend_arg)

Init ==
    /\ \E e \in BOOLEAN, f \in BackendArgs, d \in BOOLEAN, st \in BOOLEAN,
          fb \in BOOLEAN, c \in RunCounts, bs \in BackendLists :
            /\ cfg = Config(e, f, d, st, fb, c, bs)
            /\ Explored(cfg)
    /\ pc = "start"
    /\ rc = NoReturn
    /\ exc = ""
    /\ backend_commands = <<>>
    /\ listing = <<>>
    /\ bi = 0
    /\ i = 0
    /\ command = <<>>
    /\ os_environ = OS_ENVIRON
    /\ env = OS_ENVIRON
    /\ metric_regexes = <<>>
    /\ aux_regexes = NoDict
    /\ children = {}
    /\ spawned = <<>>
    /\ measured_runs = <<>>
    /\ success_metrics = <<>>
    /\ success_wall = <<>>
    /\ aux_values = NoDict
    /\ failed_runs = 0
    /\ result_rows = <<>>
    /\ reports = None
    /\ stdout = {}
    /\ stderr = <<>>

Resolution == resolve_commands(backends, backend_filters, variables, <<>>)

\* the code of the return statement is lost
Return_zero(code) ==
    /\ pc' = "returned"
    /\ rc' = 0

Return(code) ==
    /\ pc' = "returned"
    /\ rc' = code

\* lines 747-748: the exit status of the process is what main() returned;
\* an exception that leaves main() ends the interpreter with status 1
exit_status ==
    IF pc = "returned" THEN rc
    ELSE IF pc = "raised" THEN 1
    ELSE NoReturn

Raise(e) ==
    /\ pc' = "raised"
    /\ exc' = e

\* lines 466-468
ConfigMissing ==
    /\ pc = "start"
    /\ ~cfg.exists
    /\ Return(1)
    /\ stderr' = Append(stderr, [msg |-> "Config not found"])
    /\ UNCHANGED <<cfg, os_environ, stdout, exc, backend_commands, listing, bi, i, run_state,
                   children, spawned, result_rows, reports>>

\* lines 481-483
NoBackends ==
    /\ pc = "start"
    /\ cfg.exists
    /\ backends = <<>>
    /\ Return(1)
    /\ stderr' = Append(stderr, [msg |-> "Config must include a non-empty 'backends' list."])
    /\ UNCHANGED <<cfg, os_environ, stdout, exc, backend_commands, listing, bi, i, run_state,
                   children, spawned, result_rows, reports>>

\* lines 497, 502, 503: the selection pass raises
ResolveRaises ==
    /\ pc = "start"
    /\ cfg.exists
    /\ backends # <<>>
    /\ ~Resolution.ok
    /\ Raise(Resolution.exc)
    /\ UNCHANGED <<cfg, os_environ, stdout, rc, backend_commands, listing, bi, i, run_state,
                   children, spawned, result_rows, reports, stderr>>

\* the empty selection is run like any other
NoneSelected_runs ==
    /\ pc = "start"
    /\ cfg.exists
    /\ backends # <<>>
    /\ Resolution.ok
    /\ Resolution.cmds = <<>>
    /\ backend_commands' = Resolution.cmds
    /\ result_rows' = <<>>
    /\ bi' = 1
    /\ pc' = "backend"
    /\ UNCHANGED <<cfg, os_environ, stdout, rc, exc, listing, i, run_state,
                   children, spawned, reports, stderr>>

\* lines 505-511
NoneSelected ==
    /\ pc = "start"
    /\ cfg.exists
    /\ backends # <<>>
    /\ Resolution.ok
    /\ Resolution.cmds = <<>>
    /\ Return(1)
    /\ backend_commands' = Resolution.cmds
    /\ stderr' = Append(stderr, [msg |-> "No enabled backends matched --backend filter"])
    /\ UNCHANGED <<cfg, os_environ, stdout, exc, listing, bi, i, run_state,
                   children, spawned, result_rows, reports>>

\* lines 513-517
DryRun ==
    /\ pc = "start"
    /\ cfg.exists
    /\ backends # <<>>
    /\ Resolution.ok
    /\ Resolution.cmds # <<>>
    /\ cfg.dry_run
    /\ Return(0)
    /\ backend_commands' = Resolution.cmds
    /\ listing' = Resolution.cmds
    /\ UNCHANGED <<cfg, os_environ, stdout, exc, bi, i, run_state,
                   children, spawned, result_rows, reports, stderr>>

\* lines 519-521: the run loop begins
StartRuns ==
    /\ pc = "start"
    /\ cfg.exists
    /\ backends # <<>>
    /\ Resolution.ok
    /\ Resolution.cmds # <<>>
    /\ ~cfg.dry_run
    /\ backend_commands' = Resolution.cmds
    /\ result_rows' = <<>>
    /\ bi' = 1
    /\ pc' = "backend"
    /\ UNCHANGED <<cfg, os_environ, stdout, rc, exc, listing, i, run_state,
                   children, spawned, reports, stderr>>

(***************************************************************************)
(* Lines 521-553: the head of the run loop and the set-up of one backend.  *)
(***************************************************************************)
\* line 525: the name as written, not stripped
run_name(backend) == backend.name

\* lines 522-527
is_skipped(backend, cmds) ==
    ~backend.enabled \/ ~dict_has(cmds, run_name(backend))

\* lines 531-533: the process environment, copied and extended
expand_env(backend, tvars) ==
    LET keys == DOMAIN backend.env
        bad == {k \in keys : ~format_command(backend.env[k], tvars).ok}
    IN  IF bad # {}
        THEN [ok |-> FALSE, env |-> os_environ,
              exc |-> format_command(backend.env[CHOOSE k \in bad : TRUE], tvars).exc]
        ELSE [ok |-> TRUE, exc |-> "",
              env |-> [k \in (DOMAIN os_environ) \cup keys |->
                          IF k \in keys THEN format_command(backend.env[k], tvars).val
                          ELSE os_environ[k]]]

\* lines 544-553
auxiliary_regexes(backend) ==
    LET aux_keys == DOMAIN backend.aux_metrics
        parse_keys == (DOMAIN backend.parse) \ {MetricKey}
    IN  [k \in aux_keys \cup parse_keys |->
            IF k \in aux_keys THEN normalize_regexes(backend.aux_metrics[k])
            ELSE normalize_regexes(backend.parse[k])]

\* line 539
lacks_regexes(backend, fallback) ==
    primary_regexes(backend) = <<>> /\ ~fallback

\* a disabled backend, or one whose name is no key of backend_commands
SkipBackend ==
    /\ pc = "backend"
    /\ bi <= Len(backends)
    /\ is_skipped(backends[bi], backend_commands)
    /\ bi' = bi + 1
    /\ UNCHANGED <<cfg, os_environ, stdout, pc, rc, exc, backend_commands, listing, i, run_state,
                   children, spawned, result_rows, reports, stderr>>

\* lines 533 and 540: the set-up of the backend raises
BackendRaises ==
    /\ pc = "backend"
    /\ bi <= Len(backends)
    /\ ~is_skipped(backends[bi], backend_commands)
    /\ LET e == expand_env(backends[bi], variables)
       IN  /\ ~e.ok \/ lacks_regexes(backends[bi], cfg.metric_fallback_to_wall_time)
           /\ Raise(IF ~e.ok THEN e.exc ELSE "ValueError")
    /\ UNCHANGED <<cfg, os_environ, stdout, rc, backend_commands, listing, bi, i, run_state,
                   children, spawned, result_rows, reports, stderr>>

\* the overrides are written into os.environ itself (no copy)
EnterBackend_shared_environ ==
    /\ pc = "backend"
    /\ bi <= Len(backends)
    /\ ~is_skipped(backends[bi], backend_commands)
    /\ expand_env(backends[bi], variables).ok
    /\ ~lacks_regexes(backends[bi], cfg.metric_fallback_to_wall_time)
    /\ command' = dict_get(backend_commands, run_name(backends[bi]))
    /\ env' = expand_env(backends[bi], variables).env
    /\ os_environ' = env'
    /\ metric_regexes' = primary_regexes(backends[bi])
    /\ aux_regexes' = auxiliary_regexes(backends[bi])
    /\ i' = 1
    /\ pc' = "warmup"
    /\ UNCHANGED <<cfg, stdout, rc, exc, backend_commands, listing, bi, measured_runs,
                   success_metrics, success_wall, aux_values, failed_runs,
                   children, spawned, result_rows, reports, stderr>>

\* lines 528-559: the backend is set up and its warmup loop begins
EnterBackend ==
    /\ pc = "backend"
    /\ bi <= Len(backends)
    /\ ~is_skipped(backends[bi], backend_commands)
    /\ expand_env(backends[bi], variables).ok
    /\ ~lacks_regexes(backends[bi], cfg.metric_fallback_to_wall_time)
    /\ command' = dict_get(backend_commands, run_name(backends[bi]))
    /\ env' = expand_env(backends[bi], variables).env
    /\ metric_regexes' = primary_regexes(backends[bi])
    /\ aux_regexes' = auxiliary_regexes(backends[bi])
    /\ i' = 1
    /\ pc' = "warmup"
    /\ UNCHANGED <<cfg, os_environ, stdout, rc, exc, backend_commands, listing, bi, measured_runs,
                   success_metrics, success_wall, aux_values, failed_runs,
                   children, spawned, result_rows, reports, stderr>>

(***************************************************************************)
(* run_once, lines 206-250: subprocess.run starts the child and blocks     *)
(* until it exits or the timeout expires (the child is then killed and     *)
(* TimeoutExpired is raised).                                              *)
(***************************************************************************)
Process(phase) ==
    [backend |-> bi, name |-> run_name(backends[bi]), phase |-> phase,
     index |-> i, command |-> command, env |-> env]

\* line 218: the child is started
spawn(phase) ==
    /\ children' = children \cup {Process(phase)}
    /\ spawned' = Append(spawned, Process(phase))

\* the fallback to the wall time is left out
run_once_without_fallback(o, regexes, aux, fallback) ==
    LET found == {k \in DOMAIN aux : parse_numeric_metric(o.text, aux[k]) # None}
    IN  [exit_code |-> o.exit_code,
         wall_seconds |-> o.wall_seconds,
         primary_metric |-> parse_numeric_metric(o.text, regexes),
         aux_metrics |-> [k \in found |-> parse_numeric_metric(o.text, aux[k])[1]]]

\* lines 227-250: what run_once returns for a child that exited
run_once(o, regexes, aux, fallback) ==
    LET extracted == parse_numeric_metric(o.text, regexes)
        found == {k \in DOMAIN aux : parse_numeric_metric(o.text, aux[k]) # None}
    IN  [exit_code |-> o.exit_code,
         wall_seconds |-> o.wall_seconds,
         primary_metric |-> IF extracted = None /\ fallback
                            THEN Some(o.wall_seconds)
                            ELSE extracted,
         aux_metrics |-> [k \in found |-> parse_numeric_metric(o.text, aux[k])[1]]]

(***************************************************************************)
(* Lines 559-575: the warmup loop.                                         *)
(***************************************************************************)
WarmupSpawn ==
    /\ pc = "warmup"
    /\ i <= warmup_runs
    /\ spawn("warmup")
    /\ pc' = "warmup_run"
    /\ UNCHANGED <<cfg, os_environ, stdout, rc, exc, backend_commands, listing, bi, i, run_state,
                   result_rows, reports, stderr>>

\* a warmup that exits with a failure is treated as a failed measured run
WarmupExit_counted(o) ==
    /\ pc = "warmup_run"
    /\ children' = children \ {Process("warmup")}
    /\ LET record == run_once(o, metric_regexes, aux_regexes,
                              cfg.metric_fallback_to_wall_time)
       IN  IF record.exit_code = 0 /\ record.primary_metric # None
           THEN /\ i' = i + 1
                /\ pc' = "warmup"
                /\ UNCHANGED <<rc, failed_runs>>
           ELSE /\ failed_runs' = failed_runs + 1
                /\ IF strict
                   THEN Return(2) /\ UNCHANGED i
                   ELSE i' = i + 1 /\ pc' = "warmup" /\ UNCHANGED rc
    /\ UNCHANGED <<cfg, os_environ, stdout, exc, backend_commands, listing, bi, command, env,
                   metric_regexes, aux_regexes, measured_runs, success_metrics,
                   success_wall, aux_values, spawned, result_rows, reports, stderr>>

\* the child exits and run_once returns: the record is dropped
WarmupExit(o) ==
    /\ pc = "warmup_run"
    /\ children' = children \ {Process("warmup")}
    /\ i' = i + 1
    /\ pc' = "warmup"
    /\ UNCHANGED <<cfg, os_environ, stdout, rc, exc, backend_commands, listing, bi, run_state,
                   spawned, result_rows, reports, stderr>>

\* the timeout is re-raised whatever the mode
WarmupTimeout_always_raises ==
    /\ pc = "warmup_run"
    /\ children' = children \ {Process("warmup")}
    /\ Raise("TimeoutExpired")
    /\ UNCHANGED <<cfg, os_environ, stdout, rc, backend_commands, listing, bi, i, run_state,
                   spawned, result_rows, reports, stderr>>

\* lines 572-575
WarmupTimeout ==
    /\ pc = "warmup_run"
    /\ children' = children \ {Process("warmup")}
    /\ IF strict
       THEN /\ Raise("TimeoutExpired")
            /\ UNCHANGED <<i, stdout>>
       ELSE /\ i' = i + 1
            /\ pc' = "warmup"
            /\ stdout' = stdout \cup {"Warmup timeout (continuing because strict=false)."}
            /\ UNCHANGED exc
    /\ UNCHANGED <<cfg, os_environ, rc, backend_commands, listing, bi, run_state,
                   spawned, result_rows, reports, stderr>>

\* lines 577-583: the warmup loop is over
WarmupDone ==
    /\ pc = "warmup"
    /\ i > warmup_runs
    /\ measured_runs' = <<>>
    /\ success_metrics' = <<>>
    /\ success_wall' = <<>>
    /\ aux_values' = NoDict
    /\ failed_runs' = 0
    /\ i' = 1
    /\ pc' = "measure"
    /\ UNCHANGED <<cfg, os_environ, stdout, rc, exc, backend_commands, listing, bi, command, env,
                   metric_regexes, aux_regexes, children, spawned, result_rows,
                   reports, stderr>>

(***************************************************************************)
(* Lines 583-636: the measured loop.                                       *)
(***************************************************************************)
MeasuredSpawn ==
    /\ pc = "measure"
    /\ i <= runs
    /\ spawn("measured")
    /\ pc' = "measure_run"
    /\ UNCHANGED <<cfg, os_environ, stdout, rc, exc, backend_commands, listing, bi, i, run_state,
                   result_rows, reports, stderr>>

\* the exit code is not looked at
run_ok_metric_only(record) == record.primary_metric # None

\* line 610
run_ok(record) == record.exit_code = 0 /\ record.primary_metric # None

\* lines 611-622
run_record(index, record) ==
    [run_index |-> index,
     ok |-> run_ok(record),
     exit_code |-> record.exit_code,
     wall_seconds |-> record.wall_seconds,
     primary_metric |-> record.primary_metric,
     aux_metrics |-> record.aux_metrics]

\* lines 598-604
timeout_record(index) ==
    [run_index |-> index, ok |-> FALSE, error |-> "timeout"]

\* lines 627-628
aux_appended(values, found) ==
    [k \in (DOMAIN values) \cup (DOMAIN found) |->
        (IF k \in DOMAIN values THEN values[k] ELSE <<>>)
            \o (IF k \in DOMAIN found THEN <<found[k]>> ELSE <<>>)]

\* the strict test of lines 605 and 631 inverted
halts_when_lenient == ~strict

\* no failure ends main()
halts_never == FALSE

\* lines 605 and 631: does a failed or timed-out measured run end main()
halts_on_failure == strict

\* lines 610-636: the child exits and the run is classified
MeasuredExit(o) ==
    /\ pc = "measure_run"
    /\ children' = children \ {Process("measured")}
    /\ LET record == run_once(o, metric_regexes, aux_regexes,
                              cfg.metric_fallback_to_wall_time)
       IN  /\ measured_runs' = Append(measured_runs, run_record(i, record))
           /\ IF run_ok(record)
              THEN /\ success_metrics' = Append(success_metrics, record.primary_metric[1])
                   /\ success_wall' = Append(success_wall, record.wall_seconds)
                   /\ aux_values' = aux_appended(aux_values, record.aux_metrics)
                   /\ i' = i + 1
                   /\ pc' = "measure"
                   /\ UNCHANGED <<failed_runs, rc, stderr>>
              ELSE /\ failed_runs' = failed_runs + 1
                   /\ UNCHANGED <<success_metrics, success_wall, aux_values>>
                   /\ IF halts_on_failure
                      THEN /\ Return(2)
                           /\ stderr' = Append(stderr,
                                 [msg |-> "run failed", backend |-> run_name(backends[bi]),
                                  run |-> i, exit |-> record.exit_code,
                                  metric |-> record.primary_metric])
                           /\ UNCHANGED i
                      ELSE /\ i' = i + 1
                           /\ pc' = "measure"
                           /\ UNCHANGED <<rc, stderr>>
    /\ UNCHANGED <<cfg, os_environ, stdout, exc, backend_commands, listing, bi, command, env,
                   metric_regexes, aux_regexes, spawned, result_rows, reports>>

\* a lenient timeout runs the same iteration again
MeasuredTimeout_retried ==
    /\ pc = "measure_run"
    /\ children' = children \ {Process("measured")}
    /\ failed_runs' = failed_runs + 1
    /\ IF halts_on_failure
       THEN /\ Return(2)
            /\ measured_runs' = Append(measured_runs, timeout_record(i))
            /\ stderr' = Append(stderr, [msg |-> "Timeout in strict mode; aborting benchmark."])
       ELSE /\ pc' = "measure"
            /\ UNCHANGED <<rc, stderr, measured_runs>>
    /\ UNCHANGED <<cfg, os_environ, stdout, exc, backend_commands, listing, bi, i, command, env,
                   metric_regexes, aux_regexes, success_metrics, success_wall,
                   aux_values, spawned, result_rows, reports>>

\* under strict mode the benchmark is aborted before the record is appended
MeasuredTimeout_aborts_first ==
    /\ pc = "measure_run"
    /\ children' = children \ {Process("measured")}
    /\ IF halts_on_failure
       THEN /\ Return(2)
            /\ stderr' = Append(stderr, [msg |-> "Timeout in strict mode; aborting benchmark."])
            /\ UNCHANGED <<i, failed_runs, measured_runs>>
       ELSE /\ failed_runs' = failed_runs + 1
            /\ measured_runs' = Append(measured_runs, timeout_record(i))
            /\ i' = i + 1
            /\ pc' = "measure"
            /\ UNCHANGED <<rc, stderr>>
    /\ UNCHANGED <<cfg, os_environ, stdout, exc, backend_commands, listing, bi, command, env,
                   metric_regexes, aux_regexes, success_metrics, success_wall,
                   aux_values, spawned, result_rows, reports>>

\* lines 596-608: the timeout expires
MeasuredTimeout ==
    /\ pc = "measure_run"
    /\ children' = children \ {Process("measured")}
    /\ failed_runs' = failed_runs + 1
    /\ measured_runs' = Append(measured_runs, timeout_record(i))
    /\ IF halts_on_failure
       THEN /\ Return(2)
            /\ stderr' = Append(stderr, [msg |-> "Timeout in strict mode; aborting benchmark."])
            /\ UNCHANGED i
       ELSE /\ i' = i + 1
            /\ pc' = "measure"
            /\ UNCHANGED <<rc, stderr>>
    /\ UNCHANGED <<cfg, os_environ, stdout, exc, backend_commands, listing, bi, command, env,
                   metric_regexes, aux_regexes, success_metrics, success_wall,
                   aux_values, spawned, result_rows, reports>>

(***************************************************************************)
(* Lines 638-656: the backend's summary and its result row.                *)
(***************************************************************************)
\* success_runs counts every run record
backend_summary_counts_records ==
    [primary_metric |-> summarize(success_metrics),
     wall_seconds |-> summarize(success_wall),
     success_runs |-> Len(measured_runs),
     failed_runs |-> failed_runs,
     aux_metrics |-> [k \in DOMAIN aux_values |-> summarize(aux_values[k])],
     median_vs_best |-> None]

\* lines 638-644
backend_summary ==
    [primary_metric |-> summarize(success_metrics),
     wall_seconds |-> summarize(success_wall),
     success_runs |-> Len(success_metrics),
     failed_runs |-> failed_runs,
     aux_metrics |-> [k \in DOMAIN aux_values |-> summarize(aux_values[k])],
     median_vs_best |-> None]

\* any run record makes the backend ok
backend_status_any_run == IF measured_runs # <<>> THEN "ok" ELSE "failed"

\* line 645
backend_status == IF success_metrics # <<>> THEN "ok" ELSE "failed"

\* the row without the run records
result_row_without_runs ==
    [name |-> run_name(backends[bi]),
     status |-> backend_status,
     command |-> command,
     runs |-> <<>>,
     summary |-> backend_summary]

result_row ==
    [name |-> run_name(backends[bi]),
     status |-> backend_status,
     command |-> command,
     runs |-> measured_runs,
     summary |-> backend_summary]

\* the row is put in front of the earlier rows
Summarize_prepended ==
    /\ pc = "measure"
    /\ i > runs
    /\ result_rows' = <<result_row>> \o result_rows
    /\ bi' = bi + 1
    /\ pc' = "backend"
    /\ UNCHANGED <<cfg, os_environ, stdout, rc, exc, backend_commands, listing, i, run_state,
                   children, spawned, reports, stderr>>

Summarize ==
    /\ pc = "measure"
    /\ i > runs
    /\ result_rows' = Append(result_rows, result_row)
    /\ bi' = bi + 1
    /\ pc' = "backend"
    /\ UNCHANGED <<cfg, os_environ, stdout, rc, exc, backend_commands, listing, i, run_state,
                   children, spawned, reports, stderr>>

(***************************************************************************)
(* Lines 658-744: ranking ratios, the benchmark result, the three files.   *)
(* metric.direction is read here and by the reports only.                  *)
(***************************************************************************)
is_good(row) ==
    row.status = "ok" /\ "median" \in DOMAIN row.summary.primary_metric

row_median(row) == row.summary.primary_metric.median

\* the median of the first good row stands for the best
best_median_of_first(rows, direction) ==
    LET good == SelectSeq(rows, is_good)
    IN  IF good = <<>> THEN None ELSE Some(row_median(good[1]))

\* line 667
best_median(rows, direction) ==
    LET good == {k \in 1..Len(rows) : is_good(rows[k])}
        best == CHOOSE k \in good : \A j \in good :
                    IF direction = "higher"
                    THEN RatLeq(row_median(rows[j]), row_median(rows[k]))
                    ELSE RatLeq(row_median(rows[k]), row_median(rows[j]))
    IN  IF good = {} THEN None ELSE Some(row_median(rows[best]))

\* the ratios are left out only for a best median of zero
with_ratios_unless_zero(rows, direction) ==
    LET best == best_median(rows, direction)
    IN  IF best = None \/ best[1][1] = 0 THEN rows
        ELSE [k \in 1..Len(rows) |->
                IF is_good(rows[k])
                THEN [rows[k] EXCEPT !.summary.median_vs_best = Some(Rat(1, 1))]
                ELSE rows[k]]

\* lines 668-674
with_ratios(rows, direction) ==
    LET best == best_median(rows, direction)
        ratio(med) == IF direction = "higher" THEN RatDiv(med, best[1])
                      ELSE IF med[1] # 0 THEN RatDiv(best[1], med)
                      ELSE Rat(0, 1)
    IN  IF best = None \/ ~(best[1][1] > 0) THEN rows
        ELSE [k \in 1..Len(rows) |->
                IF is_good(rows[k])
                THEN [rows[k] EXCEPT !.summary.median_vs_best =
                                        Some(ratio(row_median(rows[k])))]
                ELSE rows[k]]

\* lines 677-697
benchmark_result(rows, direction) ==
    [benchmark |-> [runs |-> runs, warmup_runs |-> warmup_runs, strict |-> strict,
                    metric |-> [key |-> MetricKey, direction |-> direction]],
     results |-> rows]

\* the direction is not looked at
ranking_key_ascending(direction, value) == value

\* ranking_key, lines 265-266
ranking_key(direction, value) ==
    IF direction = "higher" THEN Rat(0 - value[1], value[2]) ELSE value

\* list.sort(key=...) is stable: items are <<key, item>>, an item goes
\* behind every item whose key is not larger
RECURSIVE insert_stable(_, _)
insert_stable(x, s) ==
    IF s = <<>> THEN <<x>>
    ELSE IF RatLess(x[1], Head(s)[1]) THEN <<x>> \o s
    ELSE <<Head(s)>> \o insert_stable(x, Tail(s))

RECURSIVE sort_stable(_)
sort_stable(items) ==
    IF items = <<>> THEN <<>>
    ELSE insert_stable(items[Len(items)], sort_stable(SubSeq(items, 1, Len(items) - 1)))

\* generate_markdown_report, lines 305-309: the ranked list, as <<name, median>>
markdown_ranked(rows, direction) ==
    LET ranked == SelectSeq(rows, is_good)
        keyed == [k \in 1..Len(ranked) |->
                    <<ranking_key(direction, row_median(ranked[k])), ranked[k]>>]
        ordered == sort_stable(keyed)
    IN  [k \in 1..Len(ordered) |-> <<ordered[k][2].name, row_median(ordered[k][2])>>]

\* generate_html_report, lines 376-385: the rows of the chart
chart_rows(rows, direction) ==
    LET charted == SelectSeq(rows, is_good)
        pairs == [k \in 1..Len(charted) |-> <<charted[k].name, row_median(charted[k])>>]
        keyed == [k \in 1..Len(pairs) |-> <<ranking_key(direction, pairs[k][2]), pairs[k]>>]
        ordered == sort_stable(keyed)
    IN  [k \in 1..Len(ordered) |-> ordered[k][2]]

\* build_svg_chart, lines 325-365: the largest value, replaced by 1 when it
\* is not positive, and one bar for each row
bar_area == 560

max_of(rows) ==
    rows[CHOOSE k \in 1..Len(rows) : \A j \in 1..Len(rows) : RatLeq(rows[j][2], rows[k][2])][2]

NoChart == [drawn |-> FALSE, max_value |-> Rat(0, 1), bars |-> <<>>]

\* the largest value is the divisor as it is
build_svg_chart_unguarded(rows) ==
    IF rows = <<>> THEN NoChart
    ELSE [drawn |-> TRUE,
          max_value |-> max_of(rows),
          bars |-> [k \in 1..Len(rows) |->
                      [label |-> rows[k][1],
                       value |-> rows[k][2],
                       bar_w |-> <<rows[k][2][1] * max_of(rows)[2] * bar_area,
                                   rows[k][2][2] * max_of(rows)[1]>>]]]

build_svg_chart(rows) ==
    IF rows = <<>> THEN NoChart
    ELSE LET max_value == IF max_of(rows)[1] <= 0 THEN Rat(1, 1) ELSE max_of(rows)
         IN  [drawn |-> TRUE,
              max_value |-> max_value,
              bars |-> [k \in 1..Len(rows) |->
                          [label |-> rows[k][1],
                           value |-> rows[k][2],
                           bar_w |-> RatMul(RatDiv(rows[k][2], max_value),
                                            Rat(bar_area, 1))]]]

ReportFiles == {"json", "md", "html"}

Finalize(direction) ==
    /\ pc = "backend"
    /\ bi > Len(backends)
    /\ result_rows' = with_ratios(result_rows, direction)
    /\ reports' = Some([files |-> ReportFiles,
                        result |-> benchmark_result(result_rows', direction),
                        ranked |-> markdown_ranked(result_rows', direction),
                        chart_rows |-> chart_rows(result_rows', direction),
                        chart |-> build_svg_chart(chart_rows(result_rows', direction))])
    /\ Return(0)
    /\ UNCHANGED <<cfg, os_environ, stdout, exc, backend_commands, listing, bi, i, run_state,
                   children, spawned, stderr>>

Next ==
    \/ ConfigMissing
    \/ NoBackends
    \/ ResolveRaises
    \/ NoneSelected
    \/ DryRun
    \/ StartRuns
    \/ SkipBackend
    \/ BackendRaises
    \/ EnterBackend
    \/ WarmupSpawn
    \/ \E o \in Outcomes : WarmupExit(o)
    \/ WarmupTimeout
    \/ WarmupDone
    \/ MeasuredSpawn
    \/ \E o \in Outcomes : MeasuredExit(o)
    \/ MeasuredTimeout
    \/ Summarize
    \/ \E direction \in {"higher", "lower"} : Finalize(direction)

Spec == Init /\ [][Next]_vars

(***************************************************************************)
(* Vocabulary of the properties.                                           *)
(***************************************************************************)
Halted == pc \in {"returned", "raised"}

\* a run record of a timeout
TimedOut(r) == "error" \in DOMAIN r

\* a run record of a failure: a timeout, a non-zero exit code, or no metric
FailedRun(r) == TimedOut(r) \/ r.exit_code # 0 \/ r.primary_metric = None

\* backend k of the configuration passes the selection pass (lines 493-499)
Selected(k) ==
    /\ backends[k].enabled
    /\ backend_is_selected(strip(backends[k].name), backend_filters)

\* backend k is run by the run loop (lines 522-527)
Runs(k) == ~is_skipped(backends[k], backend_commands)

\* the processes started for backend k, in order, as <<phase, index>>
IsProcessOf(k, p) == p.backend = k
ProcessesOf(k) ==
    LET own == SelectSeq(spawned, LAMBDA p : IsProcessOf(k, p))
    IN  [m \in 1..Len(own) |-> <<own[m].phase, own[m].index>>]

\* the run loop has been entered
InRunLoop == bi >= 1

(***************************************************************************)
(* C1.  Under strict mode, as soon as a measured run has failed (non-zero  *)
(* exit code, or no primary metric) or timed out, main has returned 2 and  *)
(* the failing run is the last process ever started: it is the last run    *)
(* record, no child is running, and main takes no further step.            *)
(***************************************************************************)
C1_StrictHaltsOnFailure ==
    (strict /\ \E k \in 1..Len(measured_runs) : FailedRun(measured_runs[k])) =>
        /\ pc = "returned"
        /\ rc = 2
        /\ children = {}
        /\ FailedRun(measured_runs[Len(measured_runs)])
        /\ \A k \in 1..(Len(measured_runs) - 1) : ~FailedRun(measured_runs[k])
        /\ spawned # <<>>
        /\ LET last == spawned[Len(spawned)]
           IN  /\ last.backend = bi
               /\ last.phase = "measured"
               /\ last.index = Len(measured_runs)
        /\ ~ENABLED Next

\* a strict halt with measured iterations of the backend and a later backend left
C1_Witness ==
    /\ strict
    /\ rc = 2
    /\ Len(measured_runs) < runs
    /\ \E k \in (bi + 1)..Len(backends) : Runs(k)

(***************************************************************************)
(* C2.  Three selected backends under strict mode, the second of which     *)
(* has failed on its first measured run.                                   *)
(***************************************************************************)
C2_Scenario ==
    /\ strict
    /\ Len(backends) = 3
    /\ \A k \in 1..3 : Selected(k) /\ Runs(k)
    /\ bi = 2
    /\ Len(measured_runs) = 1
    /\ FailedRun(measured_runs[1])

\* backend 1's full result: its N run records, all of them ok
C2_FirstRowFull ==
    /\ result_rows[1].name = backends[1].name
    /\ Len(result_rows[1].runs) = runs
    /\ \A m \in 1..runs :
          /\ result_rows[1].runs[m].run_index = m
          /\ result_rows[1].runs[m].ok
    /\ result_rows[1].summary.success_runs = runs
    /\ result_rows[1].summary.failed_runs = 0

FailedCount(rs) == Cardinality({m \in 1..Len(rs) : FailedRun(rs[m])})
OkCount(rs) == Cardinality({m \in 1..Len(rs) : rs[m].ok})

C3_RowsCounted ==
    \A k \in 1..Len(result_rows) :
        /\ Len(result_rows[k].runs) = runs
        /\ result_rows[k].summary.failed_runs = FailedCount(result_rows[k].runs)
        /\ result_rows[k].summary.success_runs = OkCount(result_rows[k].runs)
        /\ FailedCount(result_rows[k].runs) + OkCount(result_rows[k].runs) = runs

C3_LenientContinuation ==
    (~strict /\ InRunLoop /\ pc = "returned") =>
        /\ rc = 0
        /\ Len(result_rows) = Cardinality({k \in 1..Len(backends) : Selected(k)})
        /\ C3_RowsCounted

\* the same, for the configurations in which the run loop skips no selected
\* backend: here the claim holds
C3_WhenNoneSkipped ==
    (\A k \in 1..Len(backends) : Selected(k) => Runs(k)) => C3_LenientContinuation

(***************************************************************************)
(* C4.  If the command template or an environment value of a selected      *)
(* backend references an undefined template variable, no backend process   *)
(* is ever started.                                                        *)
(***************************************************************************)
CommandFails(k) == ~format_command(strip(backends[k].command), variables).ok
EnvFails(k) == ~expand_env(backends[k], variables).ok

C4_NoSpawnOnExpansionFailure ==
    (\E k \in 1..Len(backends) : Selected(k) /\ (CommandFails(k) \/ EnvFails(k))) =>
        spawned = <<>>

\* the half of C4 about command templates, which the selection pass expands
C4_CommandTemplatesOnly ==
    (\E k \in 1..Len(backends) : Selected(k) /\ CommandFails(k)) => spawned = <<>>

(***************************************************************************)
(* C5.  Exit codes.  The exit status is 2 if and only if strict mode is on *)
(* and a measured run failed or timed out.  It is 1 (and where the code    *)
(* has a return statement for the case, main returns 1) when the config    *)
(* file is missing, the backends list is empty, or no enabled backend      *)
(* matches the filter.  It is 0 only after a dry run that started nothing, *)
(* or after the whole schedule has run and the reports were written.       *)
(***************************************************************************)
MeasuredFailure ==
    \/ \E k \in 1..Len(measured_runs) : FailedRun(measured_runs[k])
    \/ \E k \in 1..Len(result_rows) : FailedCount(result_rows[k].runs) > 0

NoneMatches == ~\E k \in 1..Len(backends) : Selected(k)

ScheduleComplete ==
    /\ bi = Len(backends) + 1
    /\ children = {}
    /\ Len(result_rows) = Cardinality({k \in 1..Len(backends) : Runs(k)})
    /\ \A k \in 1..Len(backends) :
          Runs(k) => Len(ProcessesOf(k)) = warmup_runs + runs

C5_ExitCodes ==
    /\ (exit_status = 2) <=> (strict /\ MeasuredFailure)
    /\ (exit_status = 2) => pc = "returned"
    /\ (Halted /\ (~cfg.exists \/ backends = <<>> \/ NoneMatches)) => exit_status = 1
    /\ (Halted /\ (~cfg.exists \/ backends = <<>> \/ (Resolution.ok /\ Resolution.cmds = <<>>)))
          => (pc = "returned" /\ rc = 1)
    /\ (exit_status = 0) =>
          \/ cfg.dry_run /\ spawned = <<>> /\ reports = None
          \/ ~cfg.dry_run /\ ScheduleComplete /\ reports # None

\* exit status 2 after a measured run that timed out
C5_Witness ==
    /\ exit_status = 2
    /\ TimedOut(measured_runs[Len(measured_runs)])

(***************************************************************************)
(* C6.  Warmup timeout policy.  A warmup timeout leaves main() as an       *)
(* exception only under strict mode; then no run record and no result      *)
(* entry exists for that backend, the timed-out warmup is the last process *)
(* started, no report is written, nothing runs afterwards, and the exit    *)
(* status is not the 2 of a measured-run halt.  Under lenient mode the     *)
(* timeout is only logged: every backend whose loops have ended has had    *)
(* all its W warmup and N measured executions.                             *)
(***************************************************************************)
ExpectedProcesses ==
    [m \in 1..(warmup_runs + runs) |->
        IF m <= warmup_runs THEN <<"warmup", m>> ELSE <<"measured", m - warmup_runs>>]

RowsBefore(k) == Cardinality({j \in 1..(k - 1) : Runs(j)})

C6_LenientWitness ==
    /\ stdout # {}
    /\ reports # None
    /\ Len(result_rows) >= 2

(***************************************************************************)
(* C7.  Phase structure without retry.  For every backend that reaches     *)
(* its summary, the processes started for it are exactly W warmups         *)
(* followed by exactly N measured runs, its run records carry the          *)
(* run_index values 1..N in increasing order, and no iteration of any      *)
(* backend is ever started twice: the number of processes started for the  *)
(* current backend is the number of iterations begun.                      *)
(***************************************************************************)
RowOf(k) == result_rows[RowsBefore(k) + 1]

IterationsBegun ==
    IF pc = "warmup" THEN i - 1
    ELSE IF pc = "warmup_run" THEN i
    ELSE IF pc = "measure" THEN warmup_runs + i - 1
    ELSE warmup_runs + i

C7_PhaseStructure ==
    /\ \A k \in 1..Len(backends) :
          (k < bi /\ Runs(k)) =>
              /\ ProcessesOf(k) = ExpectedProcesses
              /\ RowsBefore(k) < Len(result_rows)
              /\ Len(RowOf(k).runs) = runs
              /\ \A m \in 1..runs : RowOf(k).runs[m].run_index = m
    /\ (pc = "measure" /\ i > runs) =>
          /\ ProcessesOf(bi) = ExpectedProcesses
          /\ \A m \in 1..runs : measured_runs[m].run_index = m
    /\ pc \in {"warmup", "warmup_run", "measure", "measure_run"} =>
          /\ Len(ProcessesOf(bi)) = IterationsBegun
          /\ \A m \in 1..IterationsBegun : ProcessesOf(bi)[m] = ExpectedProcesses[m]
    /\ \A m, n \in 1..Len(spawned) :
          (m < n) => <<spawned[m].backend, spawned[m].phase, spawned[m].index>>
                        # <<spawned[n].backend, spawned[n].phase, spawned[n].index>>

\* a backend with a warmup and two measured runs, the first of which timed
\* out and the second of which failed, has reached its summary
C7_Witness ==
    /\ Len(result_rows) >= 1
    /\ warmup_runs = 1
    /\ runs = 2
    /\ TimedOut(result_rows[1].runs[1])
    /\ ~result_rows[1].runs[2].ok

(***************************************************************************)
(* C8.  Warmup runs are discarded.  A step that ends a warmup execution    *)
(* without raising, whatever the child's exit code and output and whatever *)
(* the mode, goes on to the next warmup iteration and changes no run       *)
(* record, no sample list, no failure count, no result entry, no return    *)
(* code and no report; and every result entry holds the N measured records *)
(* only.                                                                   *)
(***************************************************************************)
WarmupEnds == pc = "warmup_run" /\ pc' # "raised"

C8_WarmupDiscarded ==
    /\ [](\A k \in 1..Len(result_rows) :
             /\ Len(result_rows[k].runs) = runs
             /\ result_rows[k].summary.success_runs
                   + result_rows[k].summary.failed_runs = runs)
    /\ [][WarmupEnds =>
             /\ pc' = "warmup"
             /\ i' = i + 1
             /\ UNCHANGED <<measured_runs, success_metrics, success_wall, aux_values,
                            failed_runs, result_rows, rc, exc, reports, stderr, bi>>]_vars

\* under strict mode the second backend has completed its warmup and goes on
C8_Witness ==
    /\ strict
    /\ warmup_runs = 1
    /\ bi = 2
    /\ pc = "measure_run"
    /\ Len(result_rows) = 1
    /\ failed_runs = 0
    /\ measured_runs = <<>>

(***************************************************************************)
(* C9.  Execution is strictly sequential in declared order.  At most one   *)
(* backend process is running, and it is the one started last; processes   *)
(* are started in non-decreasing order of their backend's position, so     *)
(* every run of a backend has ended before the first run of a later one    *)
(* starts; the result entries are those of the backends run so far, in     *)
(* the order of the configuration.                                         *)
(***************************************************************************)
C9_Sequential ==
    /\ Cardinality(children) <= 1
    /\ children # {} =>
          /\ spawned # <<>>
          /\ children = {spawned[Len(spawned)]}
          /\ pc \in {"warmup_run", "measure_run"}
    /\ \A m, n \in 1..Len(spawned) :
          (m < n) => /\ spawned[m].backend <= spawned[n].backend
                     /\ spawned[n].backend <= bi
    /\ InRunLoop =>
          /\ Len(result_rows) = RowsBefore(bi)
          /\ \A k \in 1..Len(backends) :
                (k < bi /\ Runs(k)) => RowOf(k).name = backends[k].name

\* the third backend is running after two differently named backends
C9_Witness ==
    /\ Len(result_rows) = 2
    /\ result_rows[1].name # result_rows[2].name
    /\ children # {}
    /\ bi = 3

(***************************************************************************)
(* C10.  Run classification.  A measured run that did not time out is      *)
(* recorded ok exactly when its exit code is zero and its primary metric   *)
(* is present; failed_runs is the number of records that are not ok, and   *)
(* the primary-metric, wall-time and auxiliary sample lists hold the       *)
(* samples of the ok records, in order, and nothing else.                  *)
(***************************************************************************)
OkRuns(rs) == SelectSeq(rs, LAMBDA r : r.ok)

OkSamples(rs) == [m \in 1..Len(OkRuns(rs)) |-> OkRuns(rs)[m].primary_metric[1]]

OkWall(rs) == [m \in 1..Len(OkRuns(rs)) |-> OkRuns(rs)[m].wall_seconds]

AuxRuns(rs, key) == SelectSeq(OkRuns(rs), LAMBDA r : key \in DOMAIN r.aux_metrics)

OkAux(rs, key) == [m \in 1..Len(AuxRuns(rs, key)) |-> AuxRuns(rs, key)[m].aux_metrics[key]]

Classified(rs) ==
    \A m \in 1..Len(rs) :
        IF TimedOut(rs[m]) THEN ~rs[m].ok
        ELSE rs[m].ok <=> (rs[m].exit_code = 0 /\ rs[m].primary_metric # None)

C10_RunClassification ==
    /\ pc \in {"measure", "measure_run"} \/ (pc = "returned" /\ rc = 2) =>
          /\ Classified(measured_runs)
          /\ failed_runs = Len(measured_runs) - Len(OkRuns(measured_runs))
          /\ success_metrics = OkSamples(measured_runs)
          /\ success_wall = OkWall(measured_runs)
          /\ \A key \in DOMAIN aux_values : aux_values[key] = OkAux(measured_runs, key)
          /\ \A m \in 1..Len(measured_runs) :
                (~TimedOut(measured_runs[m]) /\ measured_runs[m].ok) =>
                    DOMAIN measured_runs[m].aux_metrics \subseteq DOMAIN aux_values
    /\ \A k \in 1..Len(result_rows) :
          LET row == result_rows[k]
          IN  /\ Classified(row.runs)
              /\ row.summary.failed_runs = Len(row.runs) - Len(OkRuns(row.runs))
              /\ row.summary.success_runs = Len(OkRuns(row.runs))
              /\ row.summary.primary_metric = summarize(OkSamples(row.runs))
              /\ row.summary.wall_seconds = summarize(OkWall(row.runs))
              /\ \A key \in DOMAIN row.summary.aux_metrics :
                    row.summary.aux_metrics[key] = summarize(OkAux(row.runs, key))

\* a result entry with an ok run, and a failed run that exited zero without
\* a metric or exited non-zero with one
C10_Witness ==
    /\ Len(result_rows) >= 1
    /\ runs = 2
    /\ \E m, n \in 1..2 :
          /\ result_rows[1].runs[m].ok
          /\ ~TimedOut(result_rows[1].runs[n])
          /\ ~result_rows[1].runs[n].ok
          /\ \/ result_rows[1].runs[n].exit_code = 0
             \/ result_rows[1].runs[n].primary_metric # None

(***************************************************************************)
(* C11.  Wall-time fallback.  While a backend process is running, for      *)
(* every output it can write, run_once gives the extracted number when     *)
(* there is one; when the extraction is absent it gives the elapsed wall   *)
(* time if the fallback is set and leaves the metric absent if not.  So    *)
(* with the fallback set every recorded run that did not time out has a    *)
(* primary metric, and is ok whenever its exit code is zero; without it no *)
(* recorded metric is the wall time (no extracted number of the outputs    *)
(* explored equals the wall time).                                         *)
(***************************************************************************)
RecordsOf(rs) == {rs[m] : m \in {n \in 1..Len(rs) : ~TimedOut(rs[n])}}

\* the records of runs that exited, in the local list and in the entries
ExitedRecords ==
    RecordsOf(measured_runs)
        \cup UNION {RecordsOf(result_rows[k].runs) : k \in 1..Len(result_rows)}

C11_WallTimeFallback ==
    /\ pc \in {"warmup_run", "measure_run"} =>
          \A o \in Outcomes :
              LET fallback == cfg.metric_fallback_to_wall_time
                  record == run_once(o, metric_regexes, aux_regexes, fallback)
                  extracted == parse_numeric_metric(o.text, metric_regexes)
              IN  /\ extracted # None => record.primary_metric = extracted
                  /\ (extracted = None /\ fallback) =>
                        record.primary_metric = Some(o.wall_seconds)
                  /\ (extracted = None /\ ~fallback) => record.primary_metric = None
    /\ cfg.metric_fallback_to_wall_time =>
          \A r \in ExitedRecords :
              /\ r.primary_metric # None
              /\ r.exit_code = 0 => r.ok
    /\ ~cfg.metric_fallback_to_wall_time =>
          \A r \in ExitedRecords :
              r.primary_metric # None => r.primary_metric # Some(r.wall_seconds)

\* backend "b", whose one pattern found nothing, has an ok run whose primary
\* metric is its wall time
C11_Witness ==
    /\ cfg.metric_fallback_to_wall_time
    /\ Len(result_rows) >= 1
    /\ result_rows[1].name = <<"b">>
    /\ \E r \in RecordsOf(result_rows[1].runs) :
          r.ok /\ r.primary_metric = Some(r.wall_seconds)

(***************************************************************************)
(* C12.  Metric extraction.  While a backend process is running, for every *)
(* output it can write and every list of patterns, the empty one included, *)
(* extraction returns the number captured by the first pattern, in         *)
(* declaration order, that matches with a capture that parses as a number  *)
(* (a match with a non-numeric capture is passed over), and returns absent *)
(* when no pattern qualifies.                                              *)
(***************************************************************************)
Qualifies(text, pattern) == text[pattern].matched /\ text[pattern].num # None

FirstQualifying(text, regexes) ==
    LET Q == {j \in 1..Len(regexes) : Qualifies(text, regexes[j])}
    IN  IF Q = {} THEN None
        ELSE text[regexes[CHOOSE j \in Q : \A m \in Q : j <= m]].num

\* the lists of at most as many patterns as there are patterns
PatternLists == UNION {[1..n -> Patterns] : n \in 0..Cardinality(Patterns)}

ProcessRunning == pc \in {"warmup_run", "measure_run"}

HasSuccess(row) ==
    \E m \in 1..Len(row.runs) :
        /\ row.runs[m].ok
        /\ ~TimedOut(row.runs[m])
        /\ row.runs[m].primary_metric # None

StatusRight(row) ==
    /\ row.status \in {"ok", "failed"}
    /\ row.status = "ok" <=> row.summary.success_runs >= 1
    /\ row.status = "ok" <=> HasSuccess(row)
    /\ row.runs = <<>> => row.status = "failed"
    /\ row.status = "ok" <=> "median" \in DOMAIN row.summary.primary_metric

C13_BackendStatus ==
    /\ \A k \in 1..Len(result_rows) : StatusRight(result_rows[k])
    /\ reports # None =>
          \A k \in 1..Len(reports[1].result.results) :
              StatusRight(reports[1].result.results[k])

\* an emitted result with an entry that is ok and an entry that failed
\* although it has a run record
C13_Witness ==
    /\ reports # None
    /\ \E j, k \in 1..Len(reports[1].result.results) :
          LET ok_row == reports[1].result.results[j]
              failed_row == reports[1].result.results[k]
          IN  /\ ok_row.status = "ok"
              /\ failed_row.status = "failed"
              /\ failed_row.runs # <<>>

\* an emitted result with an entry that is ok in spite of a failed run
C13_MixedWitness ==
    /\ reports # None
    /\ Len(result_rows) >= 1
    /\ result_rows[1].status = "ok"
    /\ result_rows[1].summary.failed_runs >= 1

\* an emitted result of a benchmark of no measured runs
C13_NoRunsWitness ==
    /\ reports # None
    /\ runs = 0
    /\ Len(result_rows) >= 1
    /\ result_rows[1].status = "failed"

(***************************************************************************)
(* C14.  No backend selected.  When disabling and the name filter leave no *)
(* backend of a non-empty backends list selected, the run loop is never    *)
(* entered: no process is ever started and no report is written, main      *)
(* ends with exit status 1, and when the selection pass has run to its end *)
(* (no enabled backend with a blank name has made it raise first) main has *)
(* returned 1 with the message about the filter.                           *)
(***************************************************************************)
C14_NoneSelectedRejected ==
    (cfg.exists /\ backends # <<>> /\ NoneMatches) =>
        /\ spawned = <<>>
        /\ children = {}
        /\ reports = None
        /\ result_rows = <<>>
        /\ ~InRunLoop
        /\ Halted => exit_status = 1
        /\ (Halted /\ Resolution.ok) =>
              /\ pc = "returned"
              /\ rc = 1
              /\ stderr = <<[msg |-> "No enabled backends matched --backend filter"]>>

\* main has returned 1 because the filter matches no enabled backend
C14_Witness ==
    /\ pc = "returned"
    /\ rc = 1
    /\ backend_filters # <<>>
    /\ NoneMatches
    /\ \E k \in 1..Len(backends) : backends[k].enabled

\* main has returned 1 because every backend is disabled
C14_AllDisabledWitness ==
    /\ pc = "returned"
    /\ rc = 1
    /\ backends # <<>>
    /\ \A k \in 1..Len(backends) : ~backends[k].enabled

(***************************************************************************)
(* C15.  Dry run.  With a dry run of a configuration whose selection pass  *)
(* succeeds and selects at least one backend, no process is ever started,  *)
(* no report is written, the run loop is not entered, main returns 0, and  *)
(* what is printed is, for each selected backend in order, its name and    *)
(* the expansion of its own command template.                              *)
(***************************************************************************)
IsSelected(backend) ==
    backend.enabled /\ backend_is_selected(strip(backend.name), backend_filters)

OwnCommand(backend) == format_command(strip(backend.command), variables).val

ExpectedListing ==
    LET chosen == SelectSeq(backends, IsSelected)
    IN  [k \in 1..Len(chosen) |-> <<strip(chosen[k].name), OwnCommand(chosen[k])>>]

DryRunOfSelection ==
    cfg.exists /\ cfg.dry_run /\ Resolution.ok /\ ~NoneMatches

C15_DryRun ==
    DryRunOfSelection =>
        /\ spawned = <<>>
        /\ reports = None
        /\ ~InRunLoop
        /\ Halted => (pc = "returned" /\ rc = 0 /\ listing = ExpectedListing)

NamesDistinct ==
    \A j, k \in 1..Len(backends) :
        (j # k /\ Selected(j) /\ Selected(k)) => strip(backends[j].name) # strip(backends[k].name)

\* the same for the configurations in which no two selected backends share
\* a name: here the claim holds
C15_WhenNamesDistinct == NamesDistinct => C15_DryRun

\* a dry run of two selected backends and one that is not has returned
C15_TwoListed ==
    /\ DryRunOfSelection
    /\ pc = "returned"
    /\ Len(listing) = 2
    /\ Len(backends) = 3

(***************************************************************************)
(* C16.  Only selected backends run.  A backend for which a process has    *)
(* been started, or which has a result entry, is enabled, is selected by   *)
(* the name filter, and the command resolved for it and executed is not    *)
(* empty; a disabled or filtered-out backend has no process and no entry.  *)
(***************************************************************************)
HasLeftIdle(k) == ProcessesOf(k) # <<>> \/ (InRunLoop /\ k < bi /\ Runs(k))

CommandsRun(k) ==
    {spawned[m].command : m \in {n \in 1..Len(spawned) : spawned[n].backend = k}}
        \cup (IF InRunLoop /\ k < bi /\ Runs(k) THEN {RowOf(k).command} ELSE {})

C16_OnlySelectedRun ==
    \A k \in 1..Len(backends) :
        /\ HasLeftIdle(k) =>
              /\ Selected(k)
              /\ \A c \in CommandsRun(k) : strip(c) # <<>>
        /\ ~Selected(k) => (ProcessesOf(k) = <<>> /\ ~Runs(k))

\* the same with the command template in the place of the resolved
\* command: this holds
C16_TemplateNotEmpty ==
    \A k \in 1..Len(backends) :
        /\ HasLeftIdle(k) =>
              /\ Selected(k)
              /\ strip(backends[k].command) # <<>>
        /\ ~Selected(k) => (ProcessesOf(k) = <<>> /\ ~Runs(k))

\* a backend has run while a disabled one and a filtered-out one have not
C16_OthersIdle ==
    /\ reports # None
    /\ backend_filters # <<>>
    /\ Len(result_rows) = 1
    /\ \E k \in 1..Len(backends) : backends[k].enabled /\ ~Selected(k)

(***************************************************************************)
(* C17.  The name filter.  A token of a --backend string is a piece        *)
(* between two commas (or an end of the string) with the blanks around it  *)
(* removed, where something is left.  A backend is selected iff there is   *)
(* no token, or some token, letter case ignored, equals its name or is a   *)
(* part of it; a string of only commas and blanks has no token and selects *)
(* every enabled backend.                                                  *)
(***************************************************************************)
FilterChars == {"A", "b", ",", " "}
FilterStrings == UNION {[1..n -> FilterChars] : n \in 0..MaxFilterLen}
FilterNames == {<<"a">>, <<"B">>, <<"a", "b">>, <<"b", "A">>}

IsPiece(raw, m, n) ==
    /\ m <= n
    /\ \A k \in m..n : raw[k] # ","
    /\ m = 1 \/ raw[m - 1] = ","
    /\ n = Len(raw) \/ raw[n + 1] = ","

Pieces(raw) ==
    {mn \in (1..Len(raw)) \X (1..Len(raw)) : IsPiece(raw, mn[1], mn[2])}

TokensOf(raw) ==
    {strip(SubSeq(raw, mn[1], mn[2])) : mn \in Pieces(raw)} \ {<<>>}

OnlyCommasOrBlanks(raw) == \A k \in 1..Len(raw) : raw[k] \in {",", " "}

MatchesFilter(name, raw) ==
    \/ TokensOf(raw) = {}
    \/ \E token \in TokensOf(raw) :
          lower(token) = lower(name) \/ str_in(lower(token), lower(name))

\* C17: the filter functions select by tokens as described, on every short
\* --backend string; and once the selection pass has stored a command, the
\* enabled backends with a stored command are those the --backend string
\* of the run matches
C17_NameFilter ==
    /\ (pc = "start" /\ cfg.backends = <<>>) =>
          \A raw \in FilterStrings :
              /\ OnlyCommasOrBlanks(raw) <=> parse_backend_filters(raw) = <<>>
              /\ OnlyCommasOrBlanks(raw) <=> TokensOf(raw) = {}
              /\ \A name \in FilterNames :
                    backend_is_selected(name, parse_backend_filters(raw))
                        <=> MatchesFilter(name, raw)
    /\ backend_commands # <<>> =>
          \A k \in 1..Len(backends) :
              backends[k].enabled =>
                  (dict_has(backend_commands, strip(backends[k].name))
                      <=> MatchesFilter(strip(backends[k].name), cfg.backend_arg))
    /\ (backend_commands # <<>> /\ OnlyCommasOrBlanks(cfg.backend_arg)) =>
          \A k \in 1..Len(backends) :
              backends[k].enabled =>
                  dict_has(backend_commands, strip(backends[k].name))

\* a run under "A, ": a backend named "a" was selected, an enabled one was not
C17_Witness ==
    /\ InRunLoop
    /\ cfg.backend_arg = <<"A", ",", " ">>
    /\ dict_has(backend_commands, <<"a">>)
    /\ \E k \in 1..Len(backends) :
          backends[k].enabled /\ ~dict_has(backend_commands, strip(backends[k].name))

\* a run under ", ": both enabled backends were selected
C17_BlankWitness ==
    /\ InRunLoop
    /\ cfg.backend_arg = BlankFilter
    /\ Len(backend_commands) = 2

(***************************************************************************)
(* C18.  Ranking.  The ranked list of the Markdown report holds exactly    *)
(* the rows of status "ok" that have a median, best first: by descending   *)
(* median for direction "higher", by ascending median for "lower"; rows of *)
(* equal medians stay in declaration order; the chart rows of the HTML     *)
(* report are in the same order.                                           *)
(***************************************************************************)
ReportedRows == reports[1].result.results
ReportedDirection == reports[1].result.benchmark.metric.direction

\* the positions, in the result, of the rows that take part
Participants ==
    {k \in 1..Len(ReportedRows) :
        /\ ReportedRows[k].status = "ok"
        /\ "median" \in DOMAIN ReportedRows[k].summary.primary_metric}

MedianAt(k) == ReportedRows[k].summary.primary_metric.median

\* position j is ranked before position k
RankedBefore(j, k) ==
    \/ IF ReportedDirection = "higher"
       THEN RatLess(MedianAt(k), MedianAt(j))
       ELSE RatLess(MedianAt(j), MedianAt(k))
    \/ RatEq(MedianAt(j), MedianAt(k)) /\ j < k

\* the rank of a participant: one more than the participants before it
RankOf(k) == 1 + Cardinality({j \in Participants : RankedBefore(j, k)})

ExpectedRanking ==
    [r \in 1..Cardinality(Participants) |->
        LET k == CHOOSE q \in Participants : RankOf(q) = r
        IN  <<ReportedRows[k].name, MedianAt(k)>>]

\* C18: the ranked list of an emitted report is the participating rows in
\* best-first order with ties in declaration order, and the chart rows are
\* the same list
C18_Ranking ==
    reports # None =>
        /\ reports[1].ranked = ExpectedRanking
        /\ reports[1].chart_rows = reports[1].ranked

\* "higher": three rows ranked, the best declared last and a tie before it
C18_Witness ==
    /\ reports # None
    /\ ReportedDirection = "higher"
    /\ Participants = {1, 2, 3}
    /\ RatEq(MedianAt(1), MedianAt(2))
    /\ RatLess(MedianAt(2), MedianAt(3))

\* "lower": the better row is declared second
C18_LowerWitness ==
    /\ reports # None
    /\ ReportedDirection = "lower"
    /\ Participants = {1, 2}
    /\ RatLess(MedianAt(2), MedianAt(1))

\* a failed row beside a ranked one
C18_FailedLeftOut ==
    /\ reports # None
    /\ Len(ReportedRows) = 2
    /\ Cardinality(Participants) = 1

(***************************************************************************)
(* C19.  The relative-to-best ratio.  Where a ranked row carries a ratio,  *)
(* it is the row's median over the best (largest) median for direction     *)
(* "higher", and the best (smallest) median over the row's median for      *)
(* "lower"; the first-ranked row then has ratio exactly 1 and no ratio is  *)
(* above 1.                                                                *)
(***************************************************************************)
RatioAt(k) == ReportedRows[k].summary.median_vs_best

HasRatio(k) == RatioAt(k) # None

\* the position ranked first
FirstRanked == CHOOSE k \in Participants : RankOf(k) = 1

One == Rat(1, 1)

\* ratio * denominator = numerator, denominator not zero
IsQuotient(ratio, numerator, denominator) ==
    /\ denominator[1] # 0
    /\ ratio[1] * denominator[1] * numerator[2]
          = numerator[1] * ratio[2] * denominator[2]

\* C19: every ratio of an emitted result is the quotient of the direction,
\* the first-ranked row has ratio 1, and every ratio is at most 1
C19_RelativeToBest ==
    reports # None =>
        \A k \in 1..Len(ReportedRows) :
            HasRatio(k) =>
                /\ k \in Participants
                /\ IF ReportedDirection = "higher"
                   THEN IsQuotient(RatioAt(k)[1], MedianAt(k), MedianAt(FirstRanked))
                   ELSE IsQuotient(RatioAt(k)[1], MedianAt(FirstRanked), MedianAt(k))
                /\ HasRatio(FirstRanked) /\ RatEq(RatioAt(FirstRanked)[1], One)
                /\ RatLeq(RatioAt(k)[1], One)

\* "higher": the second-ranked median is half the best, the ratio is 1/2
C19_Witness ==
    /\ reports # None
    /\ ReportedDirection = "higher"
    /\ \E k \in Participants :
          /\ k # FirstRanked
          /\ HasRatio(k)
          /\ RatEq(RatioAt(k)[1], Rat(1, 2))
          /\ RatEq(RatioAt(FirstRanked)[1], One)

\* "lower": a second-ranked row with a ratio below 1
C19_LowerWitness ==
    /\ reports # None
    /\ ReportedDirection = "lower"
    /\ \E k \in Participants :
          k # FirstRanked /\ HasRatio(k) /\ RatLess(RatioAt(k)[1], One)

(***************************************************************************)
(* C20.  Ratio omission.  As stated: no row carries a ratio when the best  *)
(* median is zero or no row is ranked, a failed row never carries one, and *)
(* in every other case each ranked row carries one.  The code leaves the   *)
(* ratios out for a negative best median too (line 668).                   *)
(***************************************************************************)
Zero == Rat(0, 1)

NoneRanked == Participants = {}

BestIsZero == ~NoneRanked /\ RatEq(MedianAt(FirstRanked), Zero)

BestIsNegative == ~NoneRanked /\ RatLess(MedianAt(FirstRanked), Zero)

\* C20, as stated: the ratios are left out exactly when the best median is
\* zero or no row is ranked
C20_RatioOmission ==
    reports # None =>
        \A k \in 1..Len(ReportedRows) :
            HasRatio(k) <=> (k \in Participants /\ ~NoneRanked /\ ~BestIsZero)

\* C20, amended: no row carries a ratio when the best median is zero or
\* negative or no row is ranked; a row that is not ranked never carries
\* one; in every other case each ranked row carries one
C20_RatioOmissionAmended ==
    reports # None =>
        \A k \in 1..Len(ReportedRows) :
            HasRatio(k) <=>
                (k \in Participants /\ ~NoneRanked /\ ~BestIsZero /\ ~BestIsNegative)

\* a ranked row without a ratio: the best median is zero
C20_Witness ==
    /\ reports # None
    /\ BestIsZero
    /\ \A k \in 1..Len(ReportedRows) : ~HasRatio(k)

\* a ranked row without a ratio: the best median is negative
C20_NegativeBest ==
    /\ reports # None
    /\ BestIsNegative
    /\ \A k \in 1..Len(ReportedRows) : ~HasRatio(k)

\* a failed row without a ratio beside a ranked row that carries one
C20_FailedBesideRanked ==
    /\ reports # None
    /\ \E j \in Participants : HasRatio(j)
    /\ \E k \in 1..Len(ReportedRows) : k \notin Participants /\ ~HasRatio(k)

\* an emitted result where no row is ranked
C20_NoneRanked ==
    /\ reports # None
    /\ Len(ReportedRows) >= 1
    /\ NoneRanked

(***************************************************************************)
(* C21.  summarize.  For a non-empty series min <= median <= max and       *)
(* min <= mean <= max, the deviation is that of the population (the mean   *)
(* of the squared distances from the mean) and is 0 for one element; for   *)
(* the empty series the summary is empty, and nothing is raised.           *)
(***************************************************************************)
StatValues == {0 - 4, 0, 2, 4, 7}
StatSeries == UNION {[1..n -> StatValues] : n \in 0..MaxSeries}

\* the functions alone are checked once, where an invocation starts on a
\* configuration without backends
AtEmptyStart == pc = "start" /\ cfg.backends = <<>>

Smallest(values) == CHOOSE v \in {values[k] : k \in 1..Len(values)} :
                        \A k \in 1..Len(values) : v <= values[k]
Largest(values) == CHOOSE v \in {values[k] : k \in 1..Len(values)} :
                        \A k \in 1..Len(values) : values[k] <= v

\* the sum over the series of (n * x - sum)^2, which is n^2 times the sum
\* of the squared distances from the mean
RECURSIVE SquaredDistances(_, _, _)
SquaredDistances(values, n, total) ==
    IF values = <<>> THEN 0
    ELSE (n * Head(values) - total) * (n * Head(values) - total)
            + SquaredDistances(Tail(values), n, total)

SummaryRight(values, summary) ==
    IF values = <<>> THEN summary = <<>>
    ELSE LET n == Len(values)
             lo == Rat(Smallest(values), 1)
             hi == Rat(Largest(values), 1)
         IN  /\ DOMAIN summary = {"mean", "median", "min", "max", "p95", "stdev_sq"}
             /\ RatEq(summary.min, lo) /\ RatEq(summary.max, hi)
             /\ RatLeq(lo, summary.median) /\ RatLeq(summary.median, hi)
             /\ RatLeq(lo, summary.mean) /\ RatLeq(summary.mean, hi)
             /\ RatEq(summary.stdev_sq,
                      Rat(SquaredDistances(values, n, seq_sum(values)), n * n * n))
             /\ n = 1 => RatEq(summary.stdev_sq, Rat(0, 1))

\* C21: summarize is right on every short series, and the summaries of the
\* backend being measured and of every result row are right for a series
\* of as many samples as the row counts successes
C21_Summarize ==
    /\ AtEmptyStart => \A values \in StatSeries : SummaryRight(values, summarize(values))
    /\ \A k \in 1..Len(result_rows) :
          LET summary == result_rows[k].summary
          IN  /\ summary.success_runs = 0 => summary.primary_metric = <<>>
              /\ summary.success_runs >= 1 =>
                    /\ RatLeq(summary.primary_metric.min, summary.primary_metric.median)
                    /\ RatLeq(summary.primary_metric.median, summary.primary_metric.max)
                    /\ RatLeq(summary.primary_metric.min, summary.primary_metric.mean)
                    /\ RatLeq(summary.primary_metric.mean, summary.primary_metric.max)
              /\ summary.success_runs = 1 =>
                    RatEq(summary.primary_metric.stdev_sq, Rat(0, 1))

\* a row of two different samples
C21_Witness ==
    \E k \in 1..Len(result_rows) :
        /\ result_rows[k].summary.success_runs = 2
        /\ RatLess(result_rows[k].summary.primary_metric.min,
                   result_rows[k].summary.primary_metric.max)
        /\ RatLess(Rat(0, 1), result_rows[k].summary.primary_metric.stdev_sq)

\* a row of no sample, after measured runs
C21_EmptyWitness ==
    \E k \in 1..Len(result_rows) :
        /\ result_rows[k].runs # <<>>
        /\ result_rows[k].summary.primary_metric = <<>>

\* a row of one sample
C21_SingleWitness ==
    \E k \in 1..Len(result_rows) :
        /\ result_rows[k].summary.success_runs = 1
        /\ result_rows[k].summary.primary_metric.stdev_sq = Rat(0, 1)

(***************************************************************************)
(* C22.  percentile.  For a non-empty series percentile(values, p) is the  *)
(* minimum for p <= 0, the maximum for p >= 100, and between them the      *)
(* linear interpolation at k = (n-1)*p/100 between the order statistics at *)
(* floor(k) and ceil(k); so it lies between min and max and does not       *)
(* decrease as p grows.                                                    *)
(***************************************************************************)
PercentileSeries == UNION {[1..n -> {3, 6}] : n \in 1..MaxSeries}
PercentilePoints == {0 - 5, 0, 5, 10, 20, 100, 105}

\* the interpolation of the claim, in exact arithmetic
Interpolated(values, p) ==
    LET s == sorted(values)
        n == Len(s)
        k100 == (n - 1) * p
        floor_k == k100 \div 100
        ceil_k == IF k100 % 100 = 0 THEN floor_k ELSE floor_k + 1
    IN  RatAdd(Rat(s[floor_k + 1], 1),
               Rat((s[ceil_k + 1] - s[floor_k + 1]) * (k100 - 100 * floor_k), 100))

PercentileRight(values, p, result) ==
    /\ p <= 0 => RatEq(result, Rat(Smallest(values), 1))
    /\ p >= 100 => RatEq(result, Rat(Largest(values), 1))
    /\ (0 < p /\ p < 100) => RatEq(result, Interpolated(values, p))
    /\ RatLeq(Rat(Smallest(values), 1), result)
    /\ RatLeq(result, Rat(Largest(values), 1))

\* C22: the percentile the code computes, in its float arithmetic, is the
\* minimum for p <= 0 and the maximum for p >= 100, lies between min and
\* max and does not decrease with p (the interpolated value itself is
\* compared in exact arithmetic only, in C22_EndsAndExact)
C22_Percentile ==
    AtEmptyStart =>
        \A values \in PercentileSeries :
            /\ \A p \in PercentilePoints :
                  /\ p <= 0 => RatEq(percentile_float(values, p), Rat(Smallest(values), 1))
                  /\ p >= 100 => RatEq(percentile_float(values, p), Rat(Largest(values), 1))
                  /\ RatLeq(Rat(Smallest(values), 1), percentile_float(values, p))
                  /\ RatLeq(percentile_float(values, p), Rat(Largest(values), 1))
            /\ \A p, q \in PercentilePoints :
                  p < q => RatLeq(percentile_float(values, p), percentile_float(values, q))

\* the float percentile lies between min and max
C22_WithinRange ==
    AtEmptyStart =>
        \A values \in PercentileSeries, p \in PercentilePoints :
            /\ RatLeq(Rat(Smallest(values), 1), percentile_float(values, p))
            /\ RatLeq(percentile_float(values, p), Rat(Largest(values), 1))

\* the float percentile does not decrease with p
C22_Monotone ==
    AtEmptyStart =>
        \A values \in PercentileSeries, p \in PercentilePoints, q \in PercentilePoints :
            p < q => RatLeq(percentile_float(values, p), percentile_float(values, q))

\* what holds: the ends, in float arithmetic; and all of it in exact
\* arithmetic
C22_EndsAndExact ==
    AtEmptyStart =>
        /\ \A values \in PercentileSeries, p \in PercentilePoints :
              /\ p <= 0 => RatEq(percentile_float(values, p), Rat(Smallest(values), 1))
              /\ p >= 100 => RatEq(percentile_float(values, p), Rat(Largest(values), 1))
        /\ \A values \in StatSeries \ {<<>>} :
              /\ \A p \in PercentilePoints \cup {50, 95} :
                    PercentileRight(values, p, percentile(values, p))
              /\ \A p, q \in PercentilePoints \cup {50, 95} :
                    p < q => RatLeq(percentile(values, p), percentile(values, q))

(***************************************************************************)
(* C23.  Template expansion.  As stated: a template whose placeholders are *)
(* all defined expands, and expanding the result again with the same       *)
(* variables gives the same text; a template that names an undefined       *)
(* variable fails with an error that names it, and gives no text.          *)
(***************************************************************************)
TemplateChars == {"{", "}", "x", "y"}
Templates == UNION {[1..n -> TemplateChars] : n \in 0..MaxTemplateLen}

IsBrace(c) == c \in {"{", "}"}

\* the places <<m, n>> of the names a template holds between "{" and "}"
PlaceholderPlaces(t) ==
    {mn \in (2..Len(t)) \X (1..(Len(t) - 1)) :
        /\ mn[1] <= mn[2]
        /\ t[mn[1] - 1] = "{" /\ t[mn[2] + 1] = "}"
        /\ \A k \in mn[1]..mn[2] : ~IsBrace(t[k])}

PlaceholdersOf(t) == {SubSeq(t, mn[1], mn[2]) : mn \in PlaceholderPlaces(t)}

AllDefined(t) == PlaceholdersOf(t) \subseteq DOMAIN variables

\* every brace of the template is the brace of a placeholder
OnlyPlaceholders(t) ==
    \A k \in 1..Len(t) :
        /\ t[k] = "{" => \E mn \in PlaceholderPlaces(t) : mn[1] = k + 1
        /\ t[k] = "}" => \E mn \in PlaceholderPlaces(t) : mn[2] = k - 1

Idempotent(t) ==
    LET r == format_command(t, variables)
    IN  r.ok => format_command(r.val, variables) = r

NamedError(t) ==
    LET r == format_command(t, variables)
    IN  /\ ~r.ok
        /\ r.exc = "ValueError"
        /\ r.key \in PlaceholdersOf(t) \ DOMAIN variables
        /\ r.val = <<>>

\* C23: a template whose placeholders are all defined expands, and a second
\* expansion changes nothing; a template of placeholders of which one is
\* undefined fails with the error that names an undefined one
C23_TemplateExpansion ==
    AtEmptyStart =>
        \A t \in Templates :
            /\ AllDefined(t) => (format_command(t, variables).ok /\ Idempotent(t))
            /\ (OnlyPlaceholders(t) /\ ~AllDefined(t)) => NamedError(t)

\* every expansion that succeeds is idempotent
C23_Idempotent == AtEmptyStart => \A t \in Templates : Idempotent(t)

\* every template whose placeholders are all defined expands
C23_Total ==
    AtEmptyStart => \A t \in Templates : AllDefined(t) => format_command(t, variables).ok

\* what holds: a template whose braces are all those of placeholders expands
\* idempotently when the placeholders are defined and fails with the named
\* error when one is not; and whenever an expansion fails for an undefined
\* variable, the error names it and there is no text
C23_OnlyPlaceholders ==
    AtEmptyStart =>
        \A t \in Templates :
            /\ (OnlyPlaceholders(t) /\ AllDefined(t)) =>
                  (format_command(t, variables).ok /\ Idempotent(t))
            /\ (OnlyPlaceholders(t) /\ ~AllDefined(t)) => NamedError(t)
            /\ format_command(t, variables).key # <<>> => NamedError(t)

(***************************************************************************)
(* C24.  Variable precedence.  In the template variables the keys          *)
(* repo_root, model_path, model_name, prompt and max_tokens hold the       *)
(* computed values, whatever the user's variables say; every other user    *)
(* variable is kept, as the string of its value.                           *)
(***************************************************************************)
UserKeys == {<<"x">>, K_prompt, K_model_path, K_max_tokens}
UserValues == {JsonStr(<<"u">>), JsonInt(7)}
UserVariables == UNION {[keys -> UserValues] : keys \in SUBSET UserKeys}

TemplateConfigs ==
    [variables : UserVariables,
     model_path : {<<>>, <<"m">>, <<"/", "m">>, <<"d", "/", "m">>},
     model_name : {None, Some(<<"n">>)},
     prompt : {<<>>, <<"p">>},
     max_tokens : {0, 16, 256}]

\* the decimal digits of a natural number below 1000
Decimal(n) ==
    IF n < 10 THEN <<Digit(n)>>
    ELSE IF n < 100 THEN <<Digit(n \div 10), Digit(n % 10)>>
    ELSE <<Digit(n \div 100), Digit((n \div 10) % 10), Digit(n % 10)>>

TextOf(v) == IF v.kind = "int" THEN Decimal(v.number) ELSE v.text

\* the part of a path behind its last "/"
LastPart(path) ==
    LET slashes == {k \in 1..Len(path) : path[k] = "/"}
        last == IF slashes = {} THEN 0
                ELSE CHOOSE k \in slashes : \A j \in slashes : j <= k
    IN  SubSeq(path, last + 1, Len(path))

ComputedPath(config) ==
    IF config.model_path = <<>> THEN <<>>
    ELSE IF Head(config.model_path) = "/" THEN config.model_path
    ELSE REPO_ROOT \o <<"/">> \o config.model_path

PrecedenceRight(config, tvars) ==
    /\ DOMAIN tvars = DOMAIN config.variables \cup ComputedKeys
    /\ tvars[K_repo_root] = REPO_ROOT
    /\ tvars[K_model_path] = ComputedPath(config)
    /\ tvars[K_model_name] = IF config.model_name # None THEN config.model_name[1]
                             ELSE LastPart(ComputedPath(config))
    /\ tvars[K_prompt] = config.prompt
    /\ tvars[K_max_tokens] = Decimal(config.max_tokens)
    /\ \A k \in DOMAIN config.variables \ ComputedKeys :
          tvars[k] = TextOf(config.variables[k])

\* C24: build_template_variables gives the computed keys their computed
\* values and keeps every other user variable, on every small configuration
\* and on the configuration of the run
C24_VariablePrecedence ==
    /\ AtEmptyStart =>
          \A config \in TemplateConfigs :
              PrecedenceRight(config, build_template_variables(config))
    /\ PrecedenceRight(cfg, variables)

\* a command was expanded with the variables of a configuration whose user
\* variables hold another "prompt"
C24_Witness ==
    /\ InRunLoop
    /\ command = <<"r", " ", "1">>
    /\ K_prompt \in DOMAIN cfg.variables
    /\ TextOf(cfg.variables[K_prompt]) # cfg.prompt
    /\ variables[K_prompt] = cfg.prompt
    /\ variables[<<"x">>] = <<"1">>

(***************************************************************************)
(* C25.  Chart scaling.  The chart has one bar for each row of status "ok" *)
(* with a median and no other bar; the bars are scaled by the largest      *)
(* charted median, or by 1 when that is zero or negative, so the divisor   *)
(* is never zero and every bar is drawn.                                   *)
(***************************************************************************)
Chart == reports[1].chart

LargestMedian ==
    MedianAt(CHOOSE k \in Participants : \A j \in Participants : RatLeq(MedianAt(j), MedianAt(k)))

ExpectedScale == IF RatLess(Zero, LargestMedian) THEN LargestMedian ELSE One

\* C25: the bars of an emitted chart are the participating rows, each of
\* width median / scale * 560, where the scale is the largest charted
\* median or 1 and is positive
C25_ChartScaling ==
    reports # None =>
        /\ Len(Chart.bars) = Cardinality(Participants)
        /\ \A r \in 1..Len(Chart.bars) :
              /\ Chart.bars[r].label = ExpectedRanking[r][1]
              /\ Chart.bars[r].value = ExpectedRanking[r][2]
        /\ Participants # {} =>
              /\ Chart.drawn
              /\ RatEq(Chart.max_value, ExpectedScale)
              /\ RatLess(Zero, Chart.max_value)
              /\ \A r \in 1..Len(Chart.bars) :
                    /\ Chart.bars[r].bar_w[2] # 0
                    /\ RatEq(RatMul(Chart.bars[r].bar_w, ExpectedScale),
                             RatMul(Chart.bars[r].value, Rat(bar_area, 1)))

\* the medians of two ranked backends are both 0: two bars, scale 1
C25_Witness ==
    /\ reports # None
    /\ Participants = {1, 2}
    /\ RatEq(MedianAt(1), Zero) /\ RatEq(MedianAt(2), Zero)
    /\ Len(Chart.bars) = 2
    /\ Chart.max_value = One

\* the largest charted median is negative
C25_NegativeWitness ==
    /\ reports # None
    /\ Participants # {}
    /\ RatLess(LargestMedian, Zero)
    /\ Len(Chart.bars) = Cardinality(Participants)

\* two charted rows, one with a bar shorter than the bar area
C25_PositiveWitness ==
    /\ reports # None
    /\ Cardinality(Participants) = 2
    /\ \E r \in 1..2 : RatLess(Zero, Chart.bars[r].bar_w)
                          /\ RatLess(Chart.bars[r].bar_w, Rat(bar_area, 1))

(***************************************************************************)
(* C26.  Report persistence.  No report file is written while a selected   *)
(* backend still has a warmup or measured run to come; the three files are *)
(* written together, once the schedule has ended; on a configuration error *)
(* (an unresolved variable, an empty name or command, no backend selected) *)
(* no report is written.                                                   *)
(***************************************************************************)
\* backend k has had every one of its runs, and none is running
AllRunsDone(k) ==
    /\ ProcessesOf(k) = ExpectedProcesses
    /\ \A c \in children : c.backend # k

ConfigurationError ==
    \/ pc = "raised" /\ exc # "TimeoutExpired"
    \/ pc = "returned" /\ rc = 1

WrittenTogether ==
    /\ reports # None => (reports[1].files = ReportFiles /\ children = {} /\ pc = "returned")
    /\ ConfigurationError => reports = None

\* C26: where a report is written every selected backend has had all its
\* runs, the three files are there together, and no report is written on a
\* configuration error
C26_ReportPersistence ==
    /\ reports # None => \A k \in 1..Len(backends) : Selected(k) => AllRunsDone(k)
    /\ WrittenTogether

\* the same for the backends the run loop runs; and every selected backend
\* is one of them where the run loop skips none
C26_WhenNoneSkipped ==
    /\ reports # None => \A k \in 1..Len(backends) : Runs(k) => AllRunsDone(k)
    /\ WrittenTogether

\* a report after the runs of two backends
C26_ReportWritten ==
    /\ reports # None
    /\ Len(result_rows) = 2
    /\ warmup_runs >= 1 /\ runs >= 1
    /\ \A k \in 1..Len(backends) : Selected(k) => AllRunsDone(k)

\* an exception of the run loop after an earlier backend was run
C26_ErrorAfterRuns ==
    /\ ConfigurationError
    /\ spawned # <<>>
    /\ reports = None

(***************************************************************************)
(* C27.  Environment isolation.  Every backend process runs with a copy of *)
(* the inherited environment extended by the expanded env overrides of its *)
(* own backend; os.environ itself is never changed, and an override of one *)
(* backend is in the environment of no other backend.                      *)
(***************************************************************************)
\* the environment of the claim for backend k
OwnEnvironment(k) ==
    [key \in (DOMAIN OS_ENVIRON) \cup (DOMAIN backends[k].env) |->
        IF key \in DOMAIN backends[k].env
        THEN format_command(backends[k].env[key], variables).val
        ELSE OS_ENVIRON[key]]

\* C27: the environment of every process started is the inherited one with
\* the overrides of its own backend, and os.environ is as it was
C27_EnvironmentIsolation ==
    /\ os_environ = OS_ENVIRON
    /\ \A m \in 1..Len(spawned) :
          /\ spawned[m].env = OwnEnvironment(spawned[m].backend)
          /\ \A key \in DOMAIN spawned[m].env :
                key \in (DOMAIN OS_ENVIRON) \cup (DOMAIN backends[spawned[m].backend].env)

\* a backend with the override K ran, and a backend without it ran later
C27_Witness ==
    \E m, n \in 1..Len(spawned) :
        /\ m < n
        /\ "K" \in DOMAIN spawned[m].env
        /\ spawned[m].env["K"] = <<"1">>
        /\ spawned[n].backend # spawned[m].backend
        /\ "K" \notin DOMAIN spawned[n].env

(***************************************************************************)
(* C28.  A measured-run timeout becomes a failed run record.  Under strict *)
(* and under lenient mode the iteration i that timed out appends a record  *)
(* of run_index i, ok = false and the timeout error, and of nothing else,  *)
(* and counts as a failed run, before the mode is looked at; it adds no    *)
(* sample to a series.                                                     *)
(***************************************************************************)
TimeoutMessage == [msg |-> "Timeout in strict mode; aborting benchmark."]

AbortedOnTimeout ==
    /\ pc = "returned" /\ rc = 2
    /\ stderr # <<>> /\ stderr[Len(stderr)] = TimeoutMessage

TimeoutRecordRight(r) ==
    TimedOut(r) =>
        /\ DOMAIN r = {"run_index", "ok", "error"}
        /\ ~r.ok
        /\ r.error = "timeout"

\* the records rs, the failure count and the series of one backend agree
SeriesRight(rs, failed, metrics, wall, aux) ==
    /\ \A m \in 1..Len(rs) : rs[m].run_index = m /\ TimeoutRecordRight(rs[m])
    /\ failed = Cardinality({m \in 1..Len(rs) : ~rs[m].ok})
    /\ Len(metrics) = Cardinality({m \in 1..Len(rs) : rs[m].ok})
    /\ Len(wall) = Len(metrics)
    /\ \A key \in DOMAIN aux : Len(aux[key]) <= Len(metrics)

\* C28: every iteration that has ended has its record, a timeout record
\* holds the index, ok = false and the error only, counts as failed and adds
\* no sample; the abort on a timeout under strict mode comes after that
C28_TimeoutRecord ==
    /\ pc \in {"measure", "measure_run"} => Len(measured_runs) = i - 1
    /\ pc \in {"measure", "measure_run"} =>
          SeriesRight(measured_runs, failed_runs, success_metrics, success_wall, aux_values)
    /\ AbortedOnTimeout =>
          /\ Len(measured_runs) = i
          /\ TimedOut(measured_runs[i])
          /\ SeriesRight(measured_runs, failed_runs, success_metrics, success_wall,
                         aux_values)
    /\ \A k \in 1..Len(result_rows) :
          /\ \A m \in 1..Len(result_rows[k].runs) :
                /\ result_rows[k].runs[m].run_index = m
                /\ TimeoutRecordRight(result_rows[k].runs[m])
          /\ result_rows[k].summary.failed_runs
                = Cardinality({m \in 1..Len(result_rows[k].runs) : ~result_rows[k].runs[m].ok})
          /\ result_rows[k].summary.success_runs
                = Cardinality({m \in 1..Len(result_rows[k].runs) : result_rows[k].runs[m].ok})

\* strict mode: the benchmark was aborted on the timeout of the second run
C28_Witness ==
    /\ AbortedOnTimeout
    /\ strict
    /\ i = 2
    /\ measured_runs[1].ok
    /\ TimedOut(measured_runs[2])
    /\ failed_runs = 1

\* lenient mode: a row with the record of a timeout before that of a success
C28_LenientWitness ==
    /\ ~strict
    /\ \E k \in 1..Len(result_rows) :
          /\ Len(result_rows[k].runs) = 2
          /\ TimedOut(result_rows[k].runs[1])
          /\ result_rows[k].runs[2].ok
          /\ result_rows[k].summary.failed_runs = 1
          /\ result_rows[k].summary.success_runs = 1

(***************************************************************************)
(* C29.  Failure context.  As stated: whenever the benchmark halts under   *)
(* strict mode, on a failed measured run or on a measured-run timeout, the *)
(* last message on the error stream names the backend and the run index,   *)
(* and gives the exit code (failed run) or the timeout (timeout).          *)
(***************************************************************************)
StrictHalt == pc = "returned" /\ rc = 2

FinalMessage == stderr[Len(stderr)]

NamesTheRun(message) ==
    /\ {"backend", "run"} \subseteq DOMAIN message
    /\ message.backend = run_name(backends[bi])
    /\ message.run = i

\* C29: the final message of a strict halt names the backend and the run,
\* with the exit code of a failed run or the duration of a timeout
C29_FailureContext ==
    StrictHalt =>
        /\ stderr # <<>>
        /\ measured_runs # <<>>
        /\ NamesTheRun(FinalMessage)
        /\ IF TimedOut(measured_runs[Len(measured_runs)])
           THEN "timeout" \in DOMAIN FinalMessage
           ELSE /\ "exit" \in DOMAIN FinalMessage
                /\ FinalMessage.exit = measured_runs[Len(measured_runs)].exit_code

\* what holds: the halt on a failed run that is no timeout
C29_FailedRunContext ==
    (StrictHalt /\ ~TimedOut(measured_runs[Len(measured_runs)])) =>
        /\ stderr # <<>>
        /\ NamesTheRun(FinalMessage)
        /\ "exit" \in DOMAIN FinalMessage
        /\ FinalMessage.exit = measured_runs[Len(measured_runs)].exit_code

\* a strict halt on a failed run of the second backend
C29_FailedRunHalt ==
    /\ StrictHalt
    /\ bi = 2
    /\ ~TimedOut(measured_runs[Len(measured_runs)])
    /\ FinalMessage.backend = run_name(backends[2])

(***************************************************************************)
(* C30.  As stated: a selected backend without a pattern for the primary   *)
(* metric (no metric_regexes and no parse[metric key]), with the fallback  *)
(* to the wall time disabled, is rejected as a configuration error before  *)
(* any backend process is started.                                         *)
(***************************************************************************)
LacksPattern(k) ==
    /\ Selected(k)
    /\ normalize_regexes(backends[k].metric_regexes) = <<>>
    /\ \/ MetricKey \notin DOMAIN backends[k].parse
       \/ normalize_regexes(backends[k].parse[MetricKey]) = <<>>
    /\ ~cfg.metric_fallback_to_wall_time

\* C30: with such a backend selected no process is ever started
C30_RejectedBeforeRuns ==
    (\E k \in 1..Len(backends) : LacksPattern(k)) => spawned = <<>>

\* what holds: with such a backend selected no report is written, and the
\* backend itself never runs
C30_NeverRunNorReported ==
    \A k \in 1..Len(backends) :
        LacksPattern(k) =>
            /\ reports = None
            /\ ProcessesOf(k) = <<>>
            /\ (bi = k /\ Halted) => (pc = "raised" /\ exc = "ValueError")

\* the error is raised after an earlier backend has run
C30_RaisedAfterRuns ==
    /\ pc = "raised"
    /\ exc = "ValueError"
    /\ bi = 2
    /\ LacksPattern(2)
    /\ ProcessesOf(1) # <<>>

(***************************************************************************)
(* C31.  Every selected backend is run.  On a run that is not a dry run    *)
(* and returns 0, the result entries correspond one-to-one, in the order   *)
(* of declaration, to the backends whose commands the selection pass       *)
(* resolved (enabled, with a name, selected by the filter): none of them   *)
(* is skipped, whatever its name.                                          *)
(***************************************************************************)
SelectedInOrder == SelectSeq(backends, IsSelected)

RowNames == [k \in 1..Len(result_rows) |-> result_rows[k].name]

RunReturnedZero == InRunLoop /\ ~cfg.dry_run /\ pc = "returned" /\ rc = 0

EntriesMatchSelection ==
    /\ Len(result_rows) = Len(SelectedInOrder)
    /\ \A k \in 1..Len(result_rows) :
          /\ strip(result_rows[k].name) = strip(SelectedInOrder[k].name)
          /\ Len(result_rows[k].runs) = runs

C31_EverySelectedRuns == RunReturnedZero => EntriesMatchSelection

\* the names of the selected backends are written without blanks around them
NamesTrimmed ==
    \A k \in 1..Len(backends) : Selected(k) => strip(backends[k].name) = backends[k].name

\* what holds: the same when every selected name is written without blanks
\* around it
C31_WhenNamesTrimmed == NamesTrimmed => C31_EverySelectedRuns

\* main has returned 0 and written its reports, a selected backend was
\* never started and has no entry, and another backend has its entry
C31_SilentlySkipped ==
    /\ RunReturnedZero
    /\ reports # None
    /\ Len(result_rows) = 1
    /\ \E k \in 1..Len(backends) : Selected(k) /\ ~Runs(k) /\ ProcessesOf(k) = <<>>

\* the same with entries for all the selected backends
C31_AllEntered ==
    /\ RunReturnedZero
    /\ NamesTrimmed
    /\ Len(result_rows) = 2
    /\ \E k \in 1..Len(backends) : ~Selected(k)

(***************************************************************************)
(* C32.  Each backend runs its own command.  The command of every process  *)
(* started for a backend, warmup or measured, and the command recorded in  *)
(* its result entry, is the expansion of the command template of that      *)
(* same backend, also when two enabled backends share one name.            *)
(***************************************************************************)
RunsOwnCommand(k) == \A c \in CommandsRun(k) : c = OwnCommand(backends[k])

C32_OwnCommand == \A k \in 1..Len(backends) : RunsOwnCommand(k)

\* what holds: the same when no two selected backends share a name
C32_WhenNamesDistinct == NamesDistinct => C32_OwnCommand

\* two backends of one name have their entries, and the entry of the first
\* records the command of the second
C32_CommandOfTheOther ==
    /\ reports # None
    /\ Len(result_rows) = 2
    /\ \E j, k \in 1..Len(backends) :
          /\ j < k
          /\ Runs(j) /\ Runs(k)
          /\ strip(backends[j].name) = strip(backends[k].name)
          /\ OwnCommand(backends[j]) # OwnCommand(backends[k])
          /\ RowOf(j).command = OwnCommand(backends[k])
          /\ \A m \in 1..Len(spawned) : spawned[m].command = OwnCommand(backends[k])

\* backends of different names have each run their own command
C32_EachItsOwn ==
    /\ reports # None
    /\ NamesDistinct
    /\ Len(result_rows) = 2
    /\ result_rows[1].command # result_rows[2].command
    /\ Len(spawned) >= 2

(***************************************************************************)
(* C33.  Counter invariant.  For every result entry, success_runs plus     *)
(* failed_runs is the number of run records, the records carry the         *)
(* run_index values 1..N consecutively and in order, success_runs is the   *)
(* number of records with ok = true, and the primary-metric series and the *)
(* wall-time series that are summarized hold one sample per ok record.     *)
(***************************************************************************)
OkRecords(rs) == {m \in 1..Len(rs) : rs[m].ok}

CountersRight(row) ==
    /\ row.summary.success_runs + row.summary.failed_runs = Len(row.runs)
    /\ \A m \in 1..Len(row.runs) : row.runs[m].run_index = m
    /\ row.summary.success_runs = Cardinality(OkRecords(row.runs))
    /\ (row.summary.primary_metric = <<>>) <=> (OkRecords(row.runs) = {})
    /\ (row.summary.wall_seconds = <<>>) <=> (OkRecords(row.runs) = {})

\* the series about to be summarized (lines 638-644)
AtSummary == pc = "measure" /\ i > runs

SeriesPerOkRecord ==
    /\ Len(success_metrics) = Cardinality(OkRecords(measured_runs))
    /\ Len(success_wall) = Cardinality(OkRecords(measured_runs))
    /\ result_row.summary.success_runs + result_row.summary.failed_runs
          = Len(measured_runs)

C33_CounterInvariant ==
    /\ \A k \in 1..Len(result_rows) : CountersRight(result_rows[k])
    /\ AtSummary => SeriesPerOkRecord

\* an entry of two records, one ok and one not
C33_Witness ==
    /\ reports # None
    /\ \E k \in 1..Len(result_rows) :
          /\ Len(result_rows[k].runs) = 2
          /\ Cardinality(OkRecords(result_rows[k].runs)) = 1
          /\ result_rows[k].summary.failed_runs = 1

\* an entry whose only record is a timeout
C33_TimeoutWitness ==
    /\ \E k \in 1..Len(result_rows) :
          /\ Len(result_rows[k].runs) = 1
          /\ TimedOut(result_rows[k].runs[1])
          /\ result_rows[k].summary.success_runs = 0

(***************************************************************************)
(* C34.  Strict-mode success implies no failure.  Under strict mode with   *)
(* a measured run count N of at least 1, whenever main has returned 0      *)
(* every result entry has failed_runs = 0, success_runs = N, the status    *)
(* "ok", and N run records that are all ok.                                *)
(***************************************************************************)
WithoutFailure(row) ==
    /\ row.summary.failed_runs = 0
    /\ row.summary.success_runs = runs
    /\ row.status = "ok"
    /\ Len(row.runs) = runs
    /\ \A m \in 1..Len(row.runs) : row.runs[m].ok /\ ~FailedRun(row.runs[m])

StrictSuccess == strict /\ runs >= 1 /\ pc = "returned" /\ rc = 0

C34_StrictSuccess ==
    StrictSuccess =>
        /\ \A k \in 1..Len(result_rows) : WithoutFailure(result_rows[k])
        /\ reports # None =>
              \A k \in 1..Len(ReportedRows) : WithoutFailure(ReportedRows[k])
        /\ failed_runs = 0

\* a strict run of two backends with two measured runs each has returned 0
C34_Witness ==
    /\ StrictSuccess
    /\ reports # None
    /\ runs = 2
    /\ Len(result_rows) = 2

\* under lenient mode main returns 0 with an entry that has a failed run
C34_LenientFailure ==
    /\ ~strict /\ runs >= 1 /\ pc = "returned" /\ rc = 0
    /\ \E k \in 1..Len(result_rows) : ~WithoutFailure(result_rows[k])

(***************************************************************************)
(* C35.  Bar width bounds.  The width of every bar of the chart lies       *)
(* between 0 and the width of the bar area (560), and a backend whose      *)
(* median is the largest charted median is drawn at the full width of the  *)
(* bar area whenever that largest median is positive.                      *)
(***************************************************************************)
FullWidth == Rat(bar_area, 1)

WidthWithinArea(bar) == RatLeq(Zero, bar.bar_w) /\ RatLeq(bar.bar_w, FullWidth)

LargestAtFullWidth ==
    RatLess(Zero, LargestMedian) =>
        \A r \in 1..Len(Chart.bars) :
            RatEq(Chart.bars[r].value, LargestMedian) => RatEq(Chart.bars[r].bar_w, FullWidth)

C35_BarWidthBounds ==
    (reports # None /\ Chart.drawn) =>
        /\ \A r \in 1..Len(Chart.bars) : WidthWithinArea(Chart.bars[r])
        /\ LargestAtFullWidth

\* what holds: no bar is wider than the bar area, the bar of the largest
\* positive median has the full width, and a bar has a negative width only
\* for a negative median
C35_UpperBound ==
    (reports # None /\ Chart.drawn) =>
        /\ \A r \in 1..Len(Chart.bars) :
              /\ RatLeq(Chart.bars[r].bar_w, FullWidth)
              /\ RatLess(Chart.bars[r].bar_w, Zero) <=> RatLess(Chart.bars[r].value, Zero)
        /\ LargestAtFullWidth

\* a chart with a bar of negative width
C35_NegativeWidth ==
    /\ reports # None
    /\ Chart.drawn
    /\ \E r \in 1..Len(Chart.bars) : RatLess(Chart.bars[r].bar_w, Zero)

\* a chart with a bar of the full width and a shorter one
C35_FullAndShorter ==
    /\ reports # None
    /\ Chart.drawn
    /\ \E r, q \in 1..Len(Chart.bars) :
          /\ RatEq(Chart.bars[r].bar_w, FullWidth)
          /\ RatLess(Zero, Chart.bars[q].bar_w)
          /\ RatLess(Chart.bars[q].bar_w, FullWidth)

====
